---- MODULE Spec2Model ----
(***************************************************************************)
(* A model of the G1 query pipeline (remexre/g1):                          *)
(*   - lowering of a surface query to the ValidatedQuery IR through the    *)
(*     visitors of g1-common/src/validated/visitors.rs,                    *)
(*   - ValidatedQuery::validate / ValidatedClause::validate,               *)
(*   - the older nameless pipeline (nameless.rs, validate.rs) and the      *)
(*     paths that run a query,                                             *)
(*   - the naive solver of naive_solve.rs.                                 *)
(***************************************************************************)
EXTENDS Integers, Sequences, FiniteSets, TLC

(***************************************************************************)
(* Bounds of the input space.                                              *)
(***************************************************************************)
\* most clauses of an input query
MaxClauses == 2
\* most body literals of a clause
MaxBody == 2
\* most arguments of the head of a single-clause input query
MaxArgs == 2
\* most facts a fact stream delivers
MaxFacts == 4

(***************************************************************************)
(* Small helpers on sequences and sets.                                    *)
(***************************************************************************)
Range(s) == {s[i] : i \in 1..Len(s)}

Min(S) == CHOOSE x \in S : \A y \in S : x <= y

\* all sequences over S of a length in lo..hi
SeqsOf(S, lo, hi) == UNION {[1..n -> S] : n \in lo..hi}

(***************************************************************************)
(* Surface syntax: what a front end (proc_macro/validate.rs build_on)      *)
(* feeds to the visitors.  A value is a hole, a string or a variable.      *)
(***************************************************************************)
Hole == [t |-> "hole", s |-> "_"]
StrV(s) == [t |-> "str", s |-> s]
VarV(v) == [t |-> "var", s |-> v]

Pred(name, args) == [name |-> name, args |-> args]
Lit(negated, name, args) == [negated |-> negated, name |-> name, args |-> args]
Clause(head, body) == [head |-> head, body |-> body]
Query(cls, goal) == [clauses |-> cls, goal |-> goal]

(***************************************************************************)
(* visitors.rs: BUILTINS, and the name each gets in GoalVisitor::finish    *)
(* (-(i+1) for the i-th entry, 0-based).                                   *)
(***************************************************************************)
BUILTINS ==
  << <<"=", 2>>, <<"atom", 1>>, <<"name", 3>>, <<"edge", 3>>, <<"tag", 3>>, <<"blob", 4>> >>

BuiltinNames == [f \in Range(BUILTINS) |-> -(CHOOSE i \in 1..Len(BUILTINS) : BUILTINS[i] = f)]

(***************************************************************************)
(* The topological_sort crate as the visitors use it: a map from each      *)
(* element to the number of its unpopped predecessors and the set of its   *)
(* successors.                                                             *)
(***************************************************************************)
TSInsert(top, f) ==
  IF f \in DOMAIN top THEN top ELSE top @@ (f :> [num_prec |-> 0, succ |-> {}])

TSAddDependency(top, prec, succ) ==
  IF prec \in DOMAIN top /\ succ \in top[prec].succ
  THEN top   \* already registered
  ELSE LET top1 == IF prec \in DOMAIN top
                   THEN [top EXCEPT ![prec].succ = @ \cup {succ}]
                   ELSE top @@ (prec :> [num_prec |-> 0, succ |-> {succ}])
       IN IF succ \in DOMAIN top1
          THEN [top1 EXCEPT ![succ].num_prec = @ + 1]
          ELSE top1 @@ (succ :> [num_prec |-> 1, succ |-> {}])

TSLen(top) == Cardinality(DOMAIN top)

\* the elements peek() may return: any one without predecessors (the map is
\* a HashMap, whose iteration order is arbitrary)
TSPeek(top) == {f \in DOMAIN top : top[f].num_prec = 0}

TSRemove(top, f) ==
  [g \in DOMAIN top \ {f} |->
     IF g \in top[f].succ THEN [top[g] EXCEPT !.num_prec = @ - 1] ELSE top[g]]

(***************************************************************************)
(* validated/pool.rs                                                       *)
(***************************************************************************)
PoolDefault == [pool |-> <<>>, next_index |-> 0]

\* Pool::intern: <<the pool afterwards, the index returned>>
PoolIntern(p, key) ==
  IF key \in DOMAIN p.pool
  THEN <<p, p.pool[key]>>
  ELSE <<[pool |-> p.pool @@ (key :> p.next_index), next_index |-> p.next_index + 1],
         p.next_index>>

\* intern_dummy without the increment of next_index
PoolInternDummyStuck(p) ==
  <<p, p.next_index>>

\* Pool::intern_dummy
PoolInternDummy(p) ==
  <<[p EXCEPT !.next_index = @ + 1], p.next_index>>

(***************************************************************************)
(* State.                                                                  *)
(***************************************************************************)
VARIABLES
  query,         \* the surface query the front end is lowering
  pc,            \* which visitor owns the build: "query", "clause", "pred",
                 \* "goal", then "built" and "validated"
  clauses,       \* QueryVisitor.clauses: the TemporaryClauses pushed so far
  dependencies,  \* QueryVisitor.dependencies
  string_pool,   \* QueryVisitor.string_pool: contents -> interned Arc<str>
  cv,            \* the ClauseVisitor or GoalVisitor: name, args, body, var_pool
  pv,            \* the PredicateVisitor: negated, name, args
  built,         \* what GoalVisitor::finish returned
  validated,     \* what ValidatedQuery::validate returned
  \* running a query from the command line or the REPL
  run_path,      \* "run_sqlite" (g1-cli RunSqlite) or "repl" (the REPL's `?-`)
  run_query,     \* the surface query: the clauses defined so far and the goal
  run_pc,        \* "start", "validate", "send", "command", "solved", "error"
  nameless,      \* what NamelessQuery::from_query returned
  checked,       \* what NamelessQuery::validate returned
  tables_read,   \* the tables the Query command has read, in order
  \* naive_solve
  solve_query,   \* the query being solved
  streams,       \* what is left of the five fact streams
  states,        \* Model.states: frozen, new and old of every predicate
  solve_pc,      \* "begin", "stream", "ended"
  result,        \* how naive_solve ended
  \* SqliteConnection
  store,         \* the database: the rows of atoms, names, edges, tags, blobs
  mutex,         \* SqliteConnection.send: the caller holding the lock, or "free"
  channel,       \* the commands sent and not yet received by the worker
  worker,        \* the worker thread: where it is, its command, what it read
  callers,       \* each caller of an operation: where it is in send_command
  snap,          \* the database as it was when the worker took its command
  ops,           \* how many operations have been called
  sent_log,      \* the commands in the order they were sent
  run_log,       \* the commands in the order the worker ran them
  \* printing and parsing
  source,        \* the AST that is printed: its kind and the AST
  printed,       \* what to_string returned
  parsed,        \* what parse returned
  tokens,        \* the start and end points of the tokens the Lexer gave
  lang_pc        \* "idle", "ast", "printed", "parsed"

lowerVars ==
  <<query, pc, clauses, dependencies, string_pool, cv, pv, built, validated>>
runVars == <<run_path, run_query, run_pc, nameless, checked, tables_read>>
solveVars == <<solve_query, streams, states, solve_pc, result>>
storeVars == <<store, mutex, channel, worker, callers, snap, ops, sent_log, run_log>>
langVars == <<source, printed, parsed, tokens, lang_pc>>
allVars == <<lowerVars, runVars, solveVars, storeVars, langVars>>

None == [tag |-> "None"]
Ok == [tag |-> "Ok"]

(***************************************************************************)
(* ValidatedValue: Var(n) or Str(arc), with its span.  A span is modelled  *)
(* by the surface token it covers.                                         *)
(***************************************************************************)
ValVar(n, span) == [k |-> "Var", n |-> n, span |-> span]
ValStr(arc, span) == [k |-> "Str", s |-> arc, span |-> span]

\* intern_string that makes a new Arc on every call
InternStringAnew(sp, string) ==
  LET arc == [ptr |-> Cardinality(DOMAIN sp) + 1, str |-> string]
  IN <<[x \in DOMAIN sp \cup {string} |-> IF x = string THEN arc ELSE sp[x]], arc>>

\* QueryVisitor::intern_string: <<the pool afterwards, the Arc returned>>
\* (an Arc is its allocation and its contents)
InternString(sp, string) ==
  IF string \in DOMAIN sp
  THEN <<sp, sp[string]>>
  ELSE LET arc == [ptr |-> Cardinality(DOMAIN sp), str |-> string]
       IN <<sp @@ (string :> arc), arc>>

\* QueryVisitor::new
QueryVisitorNew ==
  [f \in Range(BUILTINS) |-> [num_prec |-> 0, succ |-> {}]]

FunctorOf(p) == <<p.name, Len(p.args)>>

(***************************************************************************)
(* The front end's position in the surface query (build_on): the clause    *)
(* being visited is the one after those pushed, and so on.                 *)
(***************************************************************************)
CurClause == query.clauses[Len(clauses) + 1]
CurLit == CurClause.body[Len(cv.body) + 1]

\* the surface predicate whose arguments are being visited, and the
\* arguments visited so far
CurSurface ==
  IF pc = "clause" THEN CurClause.head
  ELSE IF pc = "pred" THEN CurLit
  ELSE query.goal
CurArgs == IF pc = "pred" THEN pv.args ELSE cv.args

\* head arguments are visited before the body (build_on)
ArgPending ==
  /\ pc \in {"clause", "pred", "goal"}
  /\ pc = "clause" => cv.body = <<>>
  /\ Len(CurArgs) < Len(CurSurface.args)
NextArg == CurSurface.args[Len(CurArgs) + 1]

\* push a lowered argument on the visitor that is collecting arguments
PushArg(v, pool) ==
  IF pc = "pred"
  THEN /\ pv' = [pv EXCEPT !.args = Append(@, v)]
       /\ cv' = [cv EXCEPT !.var_pool = pool]
  ELSE /\ cv' = [cv EXCEPT !.args = Append(@, v), !.var_pool = pool]
       /\ pv' = pv

(***************************************************************************)
(* QueryVisitor::visit_clause, visit_goal; ClauseVisitor::visit_body       *)
(***************************************************************************)
VisitClause ==
  /\ pc = "query"
  /\ Len(clauses) < Len(query.clauses)
  /\ cv' = [name |-> CurClause.head.name, args |-> <<>>, body |-> <<>>,
            var_pool |-> PoolDefault]
  /\ pc' = "clause"
  /\ UNCHANGED <<runVars, solveVars, storeVars, langVars, query, clauses, dependencies, string_pool, pv, built, validated>>

VisitGoal ==
  /\ pc = "query"
  /\ Len(clauses) = Len(query.clauses)
  /\ cv' = [name |-> query.goal.name, args |-> <<>>, body |-> <<>>,
            var_pool |-> PoolDefault]
  /\ pc' = "goal"
  /\ UNCHANGED <<runVars, solveVars, storeVars, langVars, query, clauses, dependencies, string_pool, pv, built, validated>>

VisitBody ==
  /\ pc = "clause"
  /\ Len(cv.args) = Len(CurClause.head.args)
  /\ Len(cv.body) < Len(CurClause.body)
  /\ pv' = [negated |-> CurLit.negated, name |-> CurLit.name, args |-> <<>>]
  /\ pc' = "pred"
  /\ UNCHANGED <<runVars, solveVars, storeVars, langVars, query, clauses, dependencies, string_pool, cv, built, validated>>

(***************************************************************************)
(* ValueVisitor for ClauseVisitor, PredicateVisitor and GoalVisitor        *)
(***************************************************************************)
VisitArgHole ==
  /\ ArgPending
  /\ NextArg.t = "hole"
  /\ LET r == PoolInternDummy(cv.var_pool)
     IN PushArg(ValVar(r[2], NextArg), r[1])
  /\ UNCHANGED <<runVars, solveVars, storeVars, langVars, query, pc, clauses, dependencies, string_pool, built, validated>>

VisitArgString ==
  /\ ArgPending
  /\ NextArg.t = "str"
  /\ LET r == InternString(string_pool, NextArg.s)
     IN /\ string_pool' = r[1]
        /\ PushArg(ValStr(r[2], NextArg), cv.var_pool)
  /\ UNCHANGED <<runVars, solveVars, storeVars, langVars, query, pc, clauses, dependencies, built, validated>>

VisitArgVar ==
  /\ ArgPending
  /\ NextArg.t = "var"
  /\ LET r == PoolIntern(cv.var_pool, NextArg.s)
     IN PushArg(ValVar(r[2], NextArg), r[1])
  /\ UNCHANGED <<runVars, solveVars, storeVars, langVars, query, pc, clauses, dependencies, string_pool, built, validated>>

(***************************************************************************)
(* PredicateVisitor::finish                                                *)
(***************************************************************************)
PredicateFinish ==
  /\ pc = "pred"
  /\ Len(pv.args) = Len(CurLit.args)
  /\ cv' = [cv EXCEPT !.body = Append(@, pv)]
  /\ pc' = "clause"
  /\ UNCHANGED <<runVars, solveVars, storeVars, langVars, query, clauses, dependencies, string_pool, pv, built, validated>>

(***************************************************************************)
(* ClauseVisitor::finish: record the dependencies of the clause, then push *)
(* it.  A positive literal whose name is the head's name is skipped.       *)
(***************************************************************************)
SkipsDependency(lit, name) == ~lit.negated /\ lit.name = name

RECURSIVE AddDependencies(_, _, _, _)
AddDependencies(top, body, i, head) ==
  IF i > Len(body) THEN top
  ELSE IF SkipsDependency(body[i], head.name)
       THEN AddDependencies(top, body, i + 1, head)
       ELSE AddDependencies(
              TSAddDependency(TSInsert(top, FunctorOf(head)), FunctorOf(body[i]),
                              FunctorOf(head)),
              body, i + 1, head)

ClauseFinish ==
  /\ pc = "clause"
  /\ Len(cv.args) = Len(CurClause.head.args)
  /\ Len(cv.body) = Len(CurClause.body)
  /\ dependencies' = AddDependencies(dependencies, cv.body, 1, cv)
  /\ clauses' = Append(clauses,
                       [head |-> [name |-> cv.name, args |-> cv.args],
                        body |-> cv.body,
                        vars |-> cv.var_pool.next_index])
  /\ pc' = "query"
  /\ UNCHANGED <<runVars, solveVars, storeVars, langVars, query, string_pool, cv, pv, built, validated>>

(***************************************************************************)
(* GoalVisitor::finish                                                     *)
(***************************************************************************)
IllegalRecursion == [tag |-> "IllegalRecursion"]
NoSuchClause(functor) == [tag |-> "NoSuchClause", name |-> functor[1], argn |-> functor[2]]

\* The `while let Some(functor) = dependencies.pop()` loop: every pair of
\* (names, remaining) it can end with.  pop() may return any element without
\* predecessors.  Popping a builtin changes neither names nor n, and popping
\* never disables another element, so the order in which ready builtins are
\* popped relative to the other elements does not change the result: ready
\* builtins are popped first, one after the other, and the loop branches
\* over the ready user functors only.
RECURSIVE PopLoop(_, _, _, _)
PopLoop(top, names, n, remaining) ==
  LET ready == TSPeek(top)
      readyBuiltins == ready \cap DOMAIN BuiltinNames
      choices == IF readyBuiltins # {} THEN {CHOOSE f \in readyBuiltins : TRUE} ELSE ready
  IN IF ready = {}
     THEN {[names |-> names, remaining |-> remaining]}
     ELSE UNION {
            IF f \in DOMAIN names
            THEN PopLoop(TSRemove(top, f), names, n, remaining - 1)
            ELSE PopLoop(TSRemove(top, f), names @@ (f :> n), n + 1, remaining - 1)
            : f \in choices }

\* the functors of a TemporaryClause in the order finish looks them up:
\* the head, then the body literals
ClauseFunctors(tc) ==
  <<FunctorOf(tc.head)>> \o [i \in 1..Len(tc.body) |-> FunctorOf(tc.body[i])]

\* the first functor of the clause that has no name, if any
MissingIn(tc, names) ==
  LET fs == ClauseFunctors(tc)
      bad == {i \in 1..Len(fs) : fs[i] \notin DOMAIN names}
  IN IF bad = {} THEN <<>> ELSE <<fs[Min(bad)]>>

LowerPredicate(p, names) == [name |-> names[FunctorOf(p)], args |-> p.args]

LowerClause(tc, names) ==
  [head |-> LowerPredicate(tc.head, names),
   body |-> [i \in 1..Len(tc.body) |->
               [negated |-> tc.body[i].negated,
                pred |-> LowerPredicate(tc.body[i], names)]],
   vars |-> tc.vars]

\* clauses.sort_by_key(|clause| clause.head.name): a stable sort
RECURSIVE SortByHeadName(_)
SortByHeadName(cs) ==
  IF cs = <<>> THEN <<>>
  ELSE LET k == Min({cs[i].head.name : i \in 1..Len(cs)})
       IN SelectSeq(cs, LAMBDA c : c.head.name = k)
            \o SortByHeadName(SelectSeq(cs, LAMBDA c : c.head.name # k))

\* what finish returns once the pop loop has ended with (names, remaining)
FinishWith(names, remaining, tcs, goal, goal_vars) ==
  IF remaining # 0 THEN IllegalRecursion
  ELSE LET bad == {i \in 1..Len(tcs) : MissingIn(tcs[i], names) # <<>>}
       IN IF bad # {} THEN NoSuchClause(MissingIn(tcs[Min(bad)], names)[1])
          ELSE IF FunctorOf(goal) \notin DOMAIN names THEN NoSuchClause(FunctorOf(goal))
          ELSE [tag |-> "Ok",
                clauses |-> SortByHeadName([i \in 1..Len(tcs) |-> LowerClause(tcs[i], names)]),
                goal |-> LowerPredicate(goal, names),
                goal_vars |-> goal_vars]

GoalFinishResults ==
  {FinishWith(o.names, o.remaining, clauses, cv, cv.var_pool.next_index) :
     o \in PopLoop(dependencies, BuiltinNames, 0, TSLen(dependencies))}

GoalFinish ==
  /\ pc = "goal"
  /\ Len(cv.args) = Len(query.goal.args)
  /\ built' \in GoalFinishResults
  /\ pc' = "built"
  /\ UNCHANGED <<runVars, solveVars, storeVars, langVars, query, clauses, dependencies, string_pool, cv, pv, validated>>

(***************************************************************************)
(* validated/validate.rs                                                   *)
(***************************************************************************)
BadArgn(expected, found) == [tag |-> "BadArgn", expected |-> expected, found |-> found]
BadRecursion(caller, callee, negated) ==
  [tag |-> "BadRecursion", caller |-> caller, callee |-> callee, negated |-> negated]
BadVariable(max_vars, var) == [tag |-> "BadVariable", max_vars |-> max_vars, var |-> var]
NeverUsedPositively(clause, var) ==
  [tag |-> "NeverUsedPositively", clause |-> clause, var |-> var]

\* the first of a sequence of results that is an error, else Ok
FirstError(rs) ==
  LET bad == {i \in 1..Len(rs) : rs[i] # Ok}
  IN IF bad = {} THEN Ok ELSE rs[Min(bad)]

\* ValidatedPredicate::for_each_var with the `var < vars` closure
CheckVars(pred, vars) ==
  FirstError([i \in 1..Len(pred.args) |->
                IF pred.args[i].k = "Var" /\ ~(pred.args[i].n < vars)
                THEN BadVariable(vars, pred.args[i].n)
                ELSE Ok])

PredVars(pred) == {pred.args[i].n : i \in {j \in 1..Len(pred.args) : pred.args[j].k = "Var"}}

\* the marking without the `!negated` tests
MarksUsedAnySign(lit) ==
  IF lit.pred.name = -1
  THEN IF  /\ Len(lit.pred.args) = 2
           /\ {lit.pred.args[1].k, lit.pred.args[2].k} = {"Var", "Str"}
       THEN PredVars(lit.pred)
       ELSE {}
  ELSE PredVars(lit.pred)

\* the variables one body literal marks in used_positively
MarksUsed(lit) ==
  IF lit.pred.name = -1
  THEN IF  /\ Len(lit.pred.args) = 2
           /\ ~lit.negated
           /\ {lit.pred.args[1].k, lit.pred.args[2].k} = {"Var", "Str"}
       THEN PredVars(lit.pred)
       ELSE {}
  ELSE IF ~lit.negated THEN PredVars(lit.pred) ELSE {}

UsedPositively(clause) ==
  UNION {MarksUsed(clause.body[i]) : i \in 1..Len(clause.body)}

\* the positivity loop: a call of =/2 with other than two arguments is
\* reported on the way, else the first variable never marked
CheckPositivity(clause) ==
  LET argn == FirstError([i \in 1..Len(clause.body) |->
                IF clause.body[i].pred.name = -1 /\ Len(clause.body[i].pred.args) # 2
                THEN BadArgn(2, Len(clause.body[i].pred.args))
                ELSE Ok])
      unused == (0..(clause.vars - 1)) \ UsedPositively(clause)
  IN IF argn # Ok THEN argn
     ELSE IF unused # {} THEN NeverUsedPositively(clause, Min(unused))
     ELSE Ok

\* ValidatedClause::validate
ClauseValidate(clause) ==
  FirstError(<<CheckVars(clause.head, clause.vars)>>
             \o [i \in 1..Len(clause.body) |-> CheckVars(clause.body[i].pred, clause.vars)]
             \o <<CheckPositivity(clause)>>)

\* the stratification check of one body literal of a clause with head i
NegatedCallOk(j, i) == j < i
\* the positive test with `j > i` never true
PositiveCallAlwaysOk(j, i) == TRUE
PositiveCallOk(j, i) == j <= i

CheckStratification(clause) ==
  FirstError([b \in 1..Len(clause.body) |->
    LET lit == clause.body[b]
    IN IF lit.negated
       THEN IF NegatedCallOk(lit.pred.name, clause.head.name) THEN Ok
            ELSE BadRecursion(clause.head, lit.pred, lit.negated)
       ELSE IF PositiveCallOk(lit.pred.name, clause.head.name) THEN Ok
            ELSE BadRecursion(clause.head, lit.pred, lit.negated)])

\* the arities the validator starts from
BuiltinArities == (-1 :> 2) @@ (-2 :> 1) @@ (-3 :> 3) @@ (-4 :> 3) @@ (-5 :> 3) @@ (-6 :> 4)

\* the first loop over the clause heads: <<arities, result>>
RECURSIVE CheckHeadArities(_, _, _)
CheckHeadArities(cs, i, arities) ==
  IF i > Len(cs) THEN <<arities, Ok>>
  ELSE LET name == cs[i].head.name
           argn == Len(cs[i].head.args)
       IN IF name \in DOMAIN arities
          THEN IF arities[name] # argn
               THEN <<arities, BadArgn(arities[name], argn)>>
               ELSE CheckHeadArities(cs, i + 1, arities)
          ELSE CheckHeadArities(cs, i + 1, arities @@ (name :> argn))

\* the arities check without its second loop
CheckBodyAritiesSkipped(cs, arities) == Ok

\* the second loop, over the body literals
CheckBodyArities(cs, arities) ==
  FirstError([i \in 1..Len(cs) |->
    FirstError([b \in 1..Len(cs[i].body) |->
      LET pred == cs[i].body[b].pred
      IN IF pred.name \in DOMAIN arities
         THEN IF arities[pred.name] # Len(pred.args)
              THEN BadArgn(arities[pred.name], Len(pred.args))
              ELSE Ok
         ELSE [tag |-> "NoSuchClause", name |-> pred.name, argn |-> Len(pred.args)]])])

\* ValidatedQuery::validate
QueryValidate(q) ==
  LET heads == CheckHeadArities(q.clauses, 1, BuiltinArities)
  IN FirstError(<<
       FirstError([i \in 1..Len(q.clauses) |-> ClauseValidate(q.clauses[i])]),
       FirstError([i \in 1..Len(q.clauses) |-> CheckStratification(q.clauses[i])]),
       heads[2],
       IF heads[2] = Ok THEN CheckBodyArities(q.clauses, heads[1]) ELSE Ok,
       CheckVars(q.goal, q.goal_vars) >>)

Validate ==
  /\ pc = "built"
  /\ built.tag = "Ok"
  /\ validated' = QueryValidate(built)
  /\ pc' = "validated"
  /\ UNCHANGED <<runVars, solveVars, storeVars, langVars, query, clauses, dependencies, string_pool, cv, pv, built>>

(***************************************************************************)
(* The surface queries the front end is given.                             *)
(*                                                                         *)
(* Single-clause inputs: one clause of p or of atom with up to MaxArgs     *)
(* head arguments and up to MaxBody body literals over atom/1 and =/2,     *)
(* asked for with the head's arguments.                                    *)
(***************************************************************************)
HeadValues == {VarV("X"), Hole, StrV("a")}

AtomLits ==
  {Lit(n, "atom", <<v>>) : n \in BOOLEAN, v \in {VarV("X"), VarV("Y"), Hole}}
EqLits ==
  {Lit(n, "=", a) : n \in BOOLEAN,
                    a \in {<<VarV("X"), VarV("Y")>>, <<VarV("X"), StrV("a")>>,
                           <<StrV("b"), VarV("Y")>>}}

ClauseQueries ==
  {Query(<<Clause(Pred(n, h), b)>>, Pred(n, h)) :
     n \in {"p", "atom"},
     h \in SeqsOf(HeadValues, 0, MaxArgs),
     b \in SeqsOf(AtomLits \cup EqLits, 0, MaxBody)}

(***************************************************************************)
(* Stratification inputs: up to MaxClauses clauses whose heads are p/0,    *)
(* p/1, q/0 or the builtin atom/1, each with at most one call in its body, *)
(* and a goal that may name a functor no clause has.                       *)
(***************************************************************************)
StrataHeads == {Pred("p", <<>>), Pred("p", <<VarV("X")>>), Pred("q", <<>>),
                Pred("atom", <<VarV("X")>>)}
StrataLits ==
  {Lit(n, h.name, h.args) : n \in BOOLEAN, h \in StrataHeads \ {Pred("atom", <<VarV("X")>>)}}
    \cup {Lit(FALSE, "atom", <<VarV("X")>>), Lit(FALSE, "r", <<>>)}
StrataClauses ==
  {Clause(h, b) : h \in StrataHeads, b \in {<<>>} \cup {<<l>> : l \in StrataLits}}
StrataGoals == {Pred("p", <<>>), Pred("p", <<Hole>>), Pred("q", <<>>), Pred("r", <<StrV("a")>>)}

StrataQueries ==
  {Query(cs, g) : cs \in SeqsOf(StrataClauses, 1, MaxClauses), g \in StrataGoals}

(***************************************************************************)
(* The lowering pipeline: build_on drives the visitors over the query,     *)
(* GoalVisitor::finish builds the ValidatedQuery, validate checks it.      *)
(***************************************************************************)
NoVisitor == [name |-> "", args |-> <<>>, body |-> <<>>, var_pool |-> PoolDefault]
NoPredicate == [negated |-> FALSE, name |-> "", args |-> <<>>]

\* nothing is being run, nothing is being solved
RunIdle ==
  /\ run_path = "none"
  /\ run_query = Query(<<>>, Pred("", <<>>))
  /\ run_pc = "idle"
  /\ nameless = None
  /\ checked = None
  /\ tables_read = <<>>

SolveIdle ==
  /\ solve_query = None
  /\ streams = <<>>
  /\ states = <<>>
  /\ solve_pc = "idle"
  /\ result = None

\* no connection is open
StoreIdle ==
  /\ store = <<>>
  /\ mutex = "free"
  /\ channel = <<>>
  /\ worker = [pc |-> "none"]
  /\ callers = <<>>
  /\ snap = <<>>
  /\ ops = 0
  /\ sent_log = <<>>
  /\ run_log = <<>>

LangIdle ==
  /\ source = None
  /\ printed = <<>>
  /\ parsed = None
  /\ tokens = <<>>
  /\ lang_pc = "idle"

LowerIdle ==
  /\ query = Query(<<>>, Pred("", <<>>))
  /\ pc = "idle"
  /\ clauses = <<>>
  /\ dependencies = <<>>
  /\ string_pool = <<>>
  /\ cv = NoVisitor
  /\ pv = NoPredicate
  /\ built = None
  /\ validated = None

LowerInit(queries) ==
  /\ RunIdle
  /\ SolveIdle
  /\ StoreIdle
  /\ LangIdle
  /\ query \in queries
  /\ pc = "query"
  /\ clauses = <<>>
  /\ dependencies = QueryVisitorNew
  /\ string_pool = <<>>
  /\ cv = NoVisitor
  /\ pv = NoPredicate
  /\ built = None
  /\ validated = None

Next ==
  \/ VisitClause
  \/ VisitBody
  \/ VisitArgHole
  \/ VisitArgString
  \/ VisitArgVar
  \/ PredicateFinish
  \/ ClauseFinish
  \/ VisitGoal
  \/ GoalFinish
  \/ Validate

\* lowering and validating a query of several clauses
Init == LowerInit(StrataQueries)
Spec == Init /\ [][Next]_allVars

\* lowering and validating a query of one clause
InitClause == LowerInit(ClauseQueries)
SpecClause == InitClause /\ [][Next]_allVars

(***************************************************************************)
(* Properties of lowering and validation.                                  *)
(***************************************************************************)
Built == pc \in {"built", "validated"}
BuiltOk == Built /\ built.tag = "Ok"
Validated == pc = "validated"

OccursIn(pred, v) ==
  \E a \in 1..Len(pred.args) : pred.args[a].k = "Var" /\ pred.args[a].n = v

\* the variable indices of a lowered clause with no occurrence in a
\* positive body literal
Unbound(c) ==
  {v \in 0..(c.vars - 1) :
     ~\E i \in 1..Len(c.body) : ~c.body[i].negated /\ OccursIn(c.body[i].pred, v)}

\* C1: a lowered clause with a variable index that occurs in no positive
\* body literal is rejected by ValidatedClause::validate with
\* NeverUsedPositively, and so is the query; a clause validate accepts has
\* every variable index in some positive body literal.
C1_PositivityRejects ==
  Validated =>
    \A i \in 1..Len(built.clauses) :
      LET c == built.clauses[i]
      IN /\ Unbound(c) # {} =>
              /\ ClauseValidate(c).tag = "NeverUsedPositively"
              /\ validated.tag = "NeverUsedPositively"
         /\ ClauseValidate(c) = Ok => Unbound(c) = {}

\* `p(X) :- !atom(X).` has been validated and rejected
C1_Witness ==
  /\ Validated
  /\ query.clauses[1] = Clause(Pred("p", <<VarV("X")>>), <<Lit(TRUE, "atom", <<VarV("X")>>)>>)
  /\ validated.tag = "NeverUsedPositively"
  /\ validated.var = 0

\* the strata ordering of one lowered clause
StrataOrdered(c) ==
  \A b \in 1..Len(c.body) :
    IF c.body[b].negated
    THEN c.body[b].pred.name < c.head.name
    ELSE c.body[b].pred.name <= c.head.name

\* the first call of the query that breaks the ordering, as the error
\* that reports it
FirstBadCall(q) ==
  LET i == Min({k \in 1..Len(q.clauses) : ~StrataOrdered(q.clauses[k])})
      c == q.clauses[i]
      b == Min({k \in 1..Len(c.body) :
                  IF c.body[k].negated
                  THEN ~(c.body[k].pred.name < c.head.name)
                  ELSE ~(c.body[k].pred.name <= c.head.name)})
  IN [tag |-> "BadRecursion", caller |-> c.head, callee |-> c.body[b].pred,
      negated |-> c.body[b].negated]

\* C2: validate returns Ok only if every clause keeps the strata ordering
\* (positive calls to an index <= the head's, negated calls to an index <
\* the head's); a query whose clauses all pass the per-clause checks but
\* which breaks the ordering is reported as BadRecursion with the caller
\* head, the callee and the negation flag of the first offending call.
C2_StratificationChecked ==
  Validated =>
    /\ validated = Ok => \A i \in 1..Len(built.clauses) : StrataOrdered(built.clauses[i])
    /\ (/\ \A i \in 1..Len(built.clauses) : ClauseValidate(built.clauses[i]) = Ok
        /\ \E i \in 1..Len(built.clauses) : ~StrataOrdered(built.clauses[i]))
         => validated = FirstBadCall(built)

\* a negated call to an index that is not below the head's was reported
C2_Witness ==
  /\ Validated
  /\ validated.tag = "BadRecursion"
  /\ validated.negated
  /\ validated.callee.name >= validated.caller.name

(***************************************************************************)
(* The call graph of the surface query: who calls whom, read off the       *)
(* clauses without the visitors.                                           *)
(***************************************************************************)
Calls(q) ==
  UNION {{[caller |-> FunctorOf(q.clauses[i].head),
           callee |-> FunctorOf(q.clauses[i].body[b]),
           negated |-> q.clauses[i].body[b].negated] : b \in 1..Len(q.clauses[i].body)} :
         i \in 1..Len(q.clauses)}

RECURSIVE TransitiveClosure(_)
TransitiveClosure(R) ==
  LET R2 == R \cup {<<z[1][1], z[2][2]>> : z \in {y \in R \X R : y[1][2] = y[2][1]}}
  IN IF R2 = R THEN R ELSE TransitiveClosure(R2)

\* f calls g through one or more body literals
CallsTransitively(q) == TransitiveClosure({<<e.caller, e.callee>> : e \in Calls(q)})

\* some cycle of the call graph passes through a negated body literal
HasNegatedCycle(q) ==
  \E e \in Calls(q) : e.negated /\ (e.callee = e.caller \/ <<e.callee, e.caller>> \in CallsTransitively(q))

\* two distinct functors call each other
HasMutualRecursion(q) ==
  \E r \in CallsTransitively(q) : r[1] # r[2] /\ <<r[2], r[1]>> \in CallsTransitively(q)

HeadFunctors(q) == {FunctorOf(q.clauses[i].head) : i \in 1..Len(q.clauses)}

\* a body literal or the goal names a functor that is no builtin and no head
HasUnknownFunctor(q) ==
  \E f \in {e.callee : e \in Calls(q)} \cup {FunctorOf(q.goal)} :
    f \notin Range(BUILTINS) \cup HeadFunctors(q)

HasBuiltinHead(q) == HeadFunctors(q) \cap Range(BUILTINS) # {}

\* every variable and hole of the clause is in a positive body literal that
\* is no call of =/2 between two variables
SurfaceSafe(c) ==
  /\ \A a \in 1..Len(c.head.args) : c.head.args[a].t # "hole"
  /\ \A b \in 1..Len(c.body) : c.body[b].negated =>
       \A a \in 1..Len(c.body[b].args) : c.body[b].args[a].t # "hole"
  /\ \A v \in {x \in Range(c.head.args) \cup UNION {Range(c.body[b].args) : b \in 1..Len(c.body)} :
                 x.t = "var"} :
       \E b \in 1..Len(c.body) :
         /\ ~c.body[b].negated
         /\ v \in Range(c.body[b].args)
         /\ c.body[b].name # "="

\* C3: a query whose call graph has a cycle through a negated body literal
\* is rejected when it is built: GoalVisitor::finish returns
\* IllegalRecursion.
C3_NegatedCycleIsIllegalRecursion ==
  (Built /\ HasNegatedCycle(query)) => built = IllegalRecursion

\* C4: a query in which distinct functors call each other through positive
\* body literals only, and which is otherwise well formed (no negation, no
\* unknown functor, no builtin head, every variable bound), is lowered and
\* validated successfully.
C4_PositiveCyclesAllowed ==
  (/\ Built
   /\ HasMutualRecursion(query)
   /\ \A e \in Calls(query) : ~e.negated
   /\ ~HasUnknownFunctor(query)
   /\ ~HasBuiltinHead(query)
   /\ \A i \in 1..Len(query.clauses) : SurfaceSafe(query.clauses[i]))
    => /\ built.tag = "Ok"
       /\ Validated => validated = Ok

\* the pipeline has ended: the build failed, or validate has returned
Ended == (pc = "built" /\ built.tag # "Ok") \/ Validated
Accepted == Validated /\ validated = Ok

\* C5 as stated: a query with a body literal or goal whose functor is no
\* builtin and no head of a clause ends in a no-such-clause error, from the
\* build or from validate.
C5_UnknownFunctorIsNoSuchClause ==
  (Ended /\ HasUnknownFunctor(query)) =>
    \/ built.tag = "NoSuchClause"
    \/ (Validated /\ validated.tag = "NoSuchClause")

\* C5 amended: a query with a body literal or goal whose functor is no
\* builtin and no head of a clause is never accepted; the build fails with
\* IllegalRecursion or NoSuchClause, or validate fails, and validate's error
\* is NoSuchClause whenever the per-clause checks, the stratification check
\* and the head arities pass.
C5_UnknownFunctorNeverAccepted ==
  (Ended /\ HasUnknownFunctor(query)) =>
    /\ ~Accepted
    /\ built.tag \in {"Ok", "IllegalRecursion", "NoSuchClause"}
    /\ (/\ Validated
        /\ \A i \in 1..Len(built.clauses) :
             ClauseValidate(built.clauses[i]) = Ok /\ StrataOrdered(built.clauses[i])
        /\ CheckHeadArities(built.clauses, 1, BuiltinArities)[2] = Ok)
         => validated.tag = "NoSuchClause"

\* `p :- r.` with no clause for r/0 was built and then refused by validate
C5_Witness ==
  /\ Validated
  /\ HasUnknownFunctor(query)
  /\ <<"r", 0>> \in {e.callee : e \in Calls(query)}
  /\ built.tag = "Ok"
  /\ validated.tag = "NoSuchClause"

\* C6: a query with a clause whose head is a builtin is rejected by the
\* build or by validate.
C6_BuiltinHeadRejected ==
  (Ended /\ HasBuiltinHead(query)) => ~Accepted

\* C7: every query the build returns keeps the strata ordering in every
\* clause, whichever order the topological sort pops unordered functors in,
\* so validate never reports BadRecursion.
C7_BuiltQueryIsStratified ==
  /\ BuiltOk => \A i \in 1..Len(built.clauses) : StrataOrdered(built.clauses[i])
  /\ Validated => validated.tag # "BadRecursion"

(***************************************************************************)
(* Variable numbering.                                                     *)
(***************************************************************************)
RECURSIVE BodyValues(_)
BodyValues(body) ==
  IF body = <<>> THEN <<>> ELSE Head(body).args \o BodyValues(Tail(body))

\* the lowered values of a TemporaryClause, head first
ClauseValues(tc) == tc.head.args \o BodyValues(tc.body)

\* the values lowered so far by the visitor of the clause or goal in hand
VisitedValues ==
  cv.args \o BodyValues(cv.body) \o (IF pc = "pred" THEN pv.args ELSE <<>>)

\* the numbering of the variables among vals, of which vars were counted:
\* the indices are 0..vars-1, two occurrences share an index exactly when
\* both are the same named variable, and vars is the number of names plus
\* the number of holes
NumberingOk(vals, vars) ==
  LET occ == SelectSeq(vals, LAMBDA v : v.k = "Var")
      named == {i \in 1..Len(occ) : occ[i].span.t = "var"}
  IN /\ {occ[i].n : i \in 1..Len(occ)} = 0..(vars - 1)
     /\ \A i, j \in 1..Len(occ) :
          i # j => ((occ[i].n = occ[j].n) <=>
                      (i \in named /\ j \in named /\ occ[i].span.s = occ[j].span.s))
     /\ vars = Cardinality({occ[i].span.s : i \in named})
                 + Cardinality((1..Len(occ)) \ named)

\* C8: whatever arguments have been visited on the head and body literals
\* of a clause, or on a goal, the indices given out are exactly 0..vars-1,
\* one per variable name and one per hole, and vars counts the names and
\* the holes; so every index of a lowered clause or goal is below its vars
\* and validate never reports BadVariable.
C8_VariableNumbering ==
  /\ pc \in {"clause", "pred", "goal"} =>
       NumberingOk(VisitedValues, cv.var_pool.next_index)
  /\ \A i \in 1..Len(clauses) : NumberingOk(ClauseValues(clauses[i]), clauses[i].vars)
  /\ BuiltOk =>
       /\ NumberingOk(built.goal.args, built.goal_vars)
       /\ CheckVars(built.goal, built.goal_vars) = Ok
       /\ \A i \in 1..Len(built.clauses) :
            /\ CheckVars(built.clauses[i].head, built.clauses[i].vars) = Ok
            /\ \A b \in 1..Len(built.clauses[i].body) :
                 CheckVars(built.clauses[i].body[b].pred, built.clauses[i].vars) = Ok
  /\ Validated => validated.tag # "BadVariable"

\* `p(X, _) :- X = Y, atom(_).` was lowered with four variables and asked
\* for with two
C8_Witness ==
  /\ Validated
  /\ query.clauses[1] =
       Clause(Pred("p", <<VarV("X"), Hole>>),
              <<Lit(FALSE, "=", <<VarV("X"), VarV("Y")>>), Lit(FALSE, "atom", <<Hole>>)>>)
  /\ clauses[1].vars = 4
  /\ built.goal_vars = 2

(***************************************************************************)
(* nameless.rs: the older lowering, NamelessQuery::from_query.             *)
(***************************************************************************)
InvalidQuery(msg) == [tag |-> "InvalidQuery", msg |-> msg]

NamelessBuiltins ==
  << <<"atom", 1>>, <<"name", 3>>, <<"edge", 3>>, <<"tag", 3>>, <<"blob", 4>> >>

\* Value::to_nameless: <<var_env afterwards, the NamelessValue>>; var_env is
\* a sequence of (name, positive), a variable's number its position in it
ValueToNameless(v, var_env, positive) ==
  IF v.t = "hole"
  THEN <<Append(var_env, [name |-> "_", pos |-> positive]),
         [k |-> "Var", n |-> Len(var_env)]>>
  ELSE IF v.t = "str"
  THEN <<var_env, [k |-> "Str", s |-> v.s]>>
  ELSE LET found == {i \in 1..Len(var_env) : var_env[i].name = v.s}
           env1 == IF found = {}
                   THEN Append(var_env, [name |-> v.s, pos |-> positive])
                   ELSE var_env
           at == IF found = {} THEN Len(var_env) + 1 ELSE Min(found)
           env2 == IF positive THEN [env1 EXCEPT ![at].pos = TRUE] ELSE env1
       IN <<env2, [k |-> "Var", n |-> at - 1]>>

\* the arguments of a predicate or head, one after the other; r is what
\* to_nameless returned for the first of args
RECURSIVE ArgsToNamelessFrom(_, _, _, _)
ArgsPush(args, r, positive, out) ==
  ArgsToNamelessFrom(Tail(args), r[1], positive, Append(out, r[2]))

ArgsToNamelessFrom(args, var_env, positive, out) ==
  IF args = <<>> THEN <<var_env, out>>
  ELSE ArgsPush(args, ValueToNameless(Head(args), var_env, positive), positive, out)

ArgsToNameless(args, var_env, positive) == ArgsToNamelessFrom(args, var_env, positive, <<>>)

\* Predicate::to_nameless; r is the converted arguments
NamelessPredicateOf(pred, pred_env, r) ==
  [tag |-> "Ok", var_env |-> r[1],
   pred |-> [name |-> pred_env[FunctorOf(pred)], args |-> r[2]]]

PredicateToNameless(pred, pred_env, var_env, positive) ==
  IF FunctorOf(pred) \notin DOMAIN pred_env
  THEN InvalidQuery("undeclared predicate")
  ELSE NamelessPredicateOf(pred, pred_env, ArgsToNameless(pred.args, var_env, positive))

\* the loop of from_head_body over the body; r is the converted first
\* literal of body
RECURSIVE BodyToNameless(_, _, _, _, _)
BodyPush(body, pred_env, r, body_pos, body_neg) ==
  IF r.tag # "Ok" THEN r
  ELSE IF Head(body).negated
  THEN BodyToNameless(Tail(body), pred_env, r.var_env, body_pos, Append(body_neg, r.pred))
  ELSE BodyToNameless(Tail(body), pred_env, r.var_env, Append(body_pos, r.pred), body_neg)

BodyToNameless(body, pred_env, var_env, body_pos, body_neg) ==
  IF body = <<>>
  THEN [tag |-> "Ok", var_env |-> var_env, body_pos |-> body_pos, body_neg |-> body_neg]
  ELSE BodyPush(body, pred_env,
                PredicateToNameless(Head(body), pred_env, var_env, ~Head(body).negated),
                body_pos, body_neg)

\* NamelessClause::from_head_body; h is the converted head, b the converted
\* body
ClauseOf(h, b) ==
  IF b.tag # "Ok" THEN b
  ELSE IF \E i \in 1..Len(b.var_env) : ~b.var_env[i].pos
  THEN InvalidQuery("variable never appears in a positive position")
  ELSE [tag |-> "Ok",
        clause |-> [vars |-> Len(b.var_env), head |-> h[2],
                    body_pos |-> b.body_pos, body_neg |-> b.body_neg]]

FromHeadBodyWith(h, body, pred_env) ==
  ClauseOf(h, BodyToNameless(body, pred_env, h[1], <<>>, <<>>))

FromHeadBody(head, body, pred_env) ==
  FromHeadBodyWith(ArgsToNameless(head, <<>>, FALSE), body, pred_env)

\* the clauses of the query grouped by the functor of their head
AllClauses(q) ==
  [f \in {FunctorOf(q.clauses[i].head) : i \in 1..Len(q.clauses)} |->
     SelectSeq(q.clauses, LAMBDA c : FunctorOf(c.head) = f)]

\* the dependencies from_query registers: the caller, and callee before
\* caller for every body literal of another functor that is no builtin
\* (what is registered does not depend on the order the groups are met in)
RECURSIVE AddCalls(_, _, _)
AddCalls(top, caller, body) ==
  IF body = <<>> THEN top
  ELSE IF FunctorOf(Head(body)) # caller /\ FunctorOf(Head(body)) \notin Range(NamelessBuiltins)
  THEN AddCalls(TSAddDependency(top, FunctorOf(Head(body)), caller), caller, Tail(body))
  ELSE AddCalls(top, caller, Tail(body))

RECURSIVE AddCallers(_, _)
AddCallers(top, cs) ==
  IF cs = <<>> THEN top
  ELSE AddCallers(AddCalls(TSInsert(top, FunctorOf(Head(cs).head)),
                           FunctorOf(Head(cs).head), Head(cs).body),
                  Tail(cs))

\* every sequence the iterator of the topological sort can yield
RECURSIVE PopOrders(_)
PopOrders(top) ==
  IF TSPeek(top) = {} THEN {<<>>}
  ELSE UNION {{<<f>> \o o : o \in PopOrders(TSRemove(top, f))} : f \in TSPeek(top)}

\* converting the groups of clauses in the order of the sort; c is the
\* converted first clause of cs, group the converted clauses of the first
\* functor of order
RECURSIVE ConvertClauses(_, _, _)
ClausePush(cs, pred_env, c, out) ==
  IF c.tag # "Ok" THEN c
  ELSE ConvertClauses(Tail(cs), pred_env, Append(out, c.clause))

ConvertClauses(cs, pred_env, out) ==
  IF cs = <<>> THEN [tag |-> "Ok", clauses |-> out]
  ELSE ClausePush(cs, pred_env, FromHeadBody(Head(cs).head.args, Head(cs).body, pred_env), out)

RECURSIVE ConvertGroups(_, _, _, _, _)
GroupPush(order, all_clauses, env, pred_env_counter, group, out) ==
  IF group.tag # "Ok" THEN group
  ELSE ConvertGroups(Tail(order), all_clauses, env, pred_env_counter + 1,
                     Append(out, group.clauses))

ConvertGroups(order, all_clauses, pred_env, pred_env_counter, out) ==
  IF order = <<>> THEN [tag |-> "Ok", clauses |-> out, pred_env |-> pred_env]
  ELSE IF Head(order) \notin DOMAIN all_clauses
  THEN InvalidQuery("undeclared predicate after stratification")
  ELSE IF Head(order) \in DOMAIN pred_env
  THEN InvalidQuery("redefining existing predicate")
  ELSE GroupPush(order, all_clauses, pred_env @@ (Head(order) :> pred_env_counter),
                 pred_env_counter,
                 ConvertClauses(all_clauses[Head(order)],
                                pred_env @@ (Head(order) :> pred_env_counter), <<>>),
                 out)

\* the predicate environment from_query starts from
NamelessBuiltinNames ==
  [f \in Range(NamelessBuiltins) |->
     (CHOOSE i \in 1..Len(NamelessBuiltins) : NamelessBuiltins[i] = f) - 1]

\* the end of from_query: the goal
QueryOf(groups, goal) ==
  IF goal.tag # "Ok" THEN goal
  ELSE [tag |-> "Ok", clauses |-> groups.clauses,
        goal_vars |-> Len(goal.var_env), goal |-> goal.pred]

GoalToNameless(q, groups) ==
  IF groups.tag # "Ok" THEN groups
  ELSE QueryOf(groups, PredicateToNameless(q.goal, groups.pred_env, <<>>, FALSE))

\* from_query, given the order the topological sort yielded
FromQueryWith(q, toposort, toposort_size) ==
  IF Len(toposort) # toposort_size THEN InvalidQuery("failed to stratify query")
  ELSE GoalToNameless(q, ConvertGroups(toposort, AllClauses(q), NamelessBuiltinNames, 5, <<>>))

\* NamelessQuery::from_query: every result it can return
FromQuery(q) ==
  {FromQueryWith(q, o, TSLen(AddCallers(<<>>, q.clauses))) :
     o \in PopOrders(AddCallers(<<>>, q.clauses))}

(***************************************************************************)
(* validate.rs: NamelessQuery::validate.                                   *)
(***************************************************************************)
\* NamelessValue::validate over the arguments of a predicate or a head:
\* does every variable have a number below vars
ArgsInRange(args, vars) ==
  \A a \in 1..Len(args) : args[a].k = "Var" => args[a].n < vars

\* NamelessClause::validate
NamelessClauseValidate(clause, pred_num) ==
  LET marked ==
        UNION {{clause.body_pos[b].args[a].n :
                  a \in {x \in 1..Len(clause.body_pos[b].args) :
                           clause.body_pos[b].args[x].k = "Var"}} :
               b \in 1..Len(clause.body_pos)}
      \* the checks in the order they are made: the head, the positive
      \* literals, the negated literals
      steps ==
        <<IF ArgsInRange(clause.head, clause.vars) THEN Ok
          ELSE InvalidQuery("invalid variable number")>>
        \o [b \in 1..Len(clause.body_pos) |->
              IF clause.body_pos[b].name > pred_num
              THEN InvalidQuery("incorrect stratification")
              ELSE IF ~ArgsInRange(clause.body_pos[b].args, clause.vars)
              THEN InvalidQuery("invalid variable number")
              ELSE Ok]
        \o [b \in 1..Len(clause.body_neg) |->
              IF clause.body_neg[b].name > pred_num - 1
              THEN InvalidQuery("incorrect stratification")
              ELSE IF ~ArgsInRange(clause.body_neg[b].args, clause.vars)
              THEN InvalidQuery("invalid variable number")
              ELSE Ok]
        \o <<IF (0..(clause.vars - 1)) \subseteq marked THEN Ok
             ELSE InvalidQuery("variable not positive")>>
  IN FirstError(steps)

\* NamelessQuery::validate
NamelessValidate(q) ==
  FirstError([i \in 1..Len(q.clauses) |->
    FirstError([c \in 1..Len(q.clauses[i]) |->
      NamelessClauseValidate(q.clauses[i][c], (i - 1) + 5)])])

(***************************************************************************)
(* Running a query (g1-cli main.rs, g1-sqlite-connection run.rs).          *)
(*                                                                         *)
(* RunSqlite loads the query with NamelessQuery::from_str (parse,          *)
(* from_query, validate) and hands it to Connection::query; the REPL's     *)
(* `?-` builds it with NamelessQuery::from_query from the clauses defined  *)
(* so far and hands it to Connection::query.  The connection sends         *)
(* Command::Query to its thread, which reads the five tables and solves.   *)
(***************************************************************************)
TABLES == <<"atoms", "names", "edges", "tags", "blobs">>

\* from_query, as from_str (run_sqlite) and the REPL call it
RunFromQuery ==
  /\ run_pc = "start"
  /\ nameless' \in FromQuery(run_query)
  /\ run_pc' = IF nameless'.tag # "Ok" THEN "error"
               ELSE IF run_path = "run_sqlite" THEN "validate"
               ELSE "send"
  /\ UNCHANGED <<lowerVars, solveVars, storeVars, langVars, run_path, run_query, checked, tables_read>>

\* query.validate()? in from_str
RunValidate ==
  /\ run_pc = "validate"
  /\ checked' = NamelessValidate(nameless)
  /\ run_pc' = IF checked' = Ok THEN "send" ELSE "error"
  /\ UNCHANGED <<lowerVars, solveVars, storeVars, langVars, run_path, run_query, nameless, tables_read>>

\* Connection::query: send_command(Command::Query(limit, query, send))
ConnectionQuery ==
  /\ run_pc = "send"
  /\ run_pc' = "command"
  /\ UNCHANGED <<lowerVars, solveVars, storeVars, langVars, run_path, run_query, nameless, checked, tables_read>>

\* Command::run, the Query arm: one select after the other
ReadTable ==
  /\ run_pc = "command"
  /\ Len(tables_read) < Len(TABLES)
  /\ tables_read' = Append(tables_read, TABLES[Len(tables_read) + 1])
  /\ UNCHANGED <<lowerVars, solveVars, storeVars, langVars, run_path, run_query, run_pc, nameless, checked>>

\* tx.finish() and the call of the solver
RunSolve ==
  /\ run_pc = "command"
  /\ Len(tables_read) = Len(TABLES)
  /\ run_pc' = "solved"
  /\ UNCHANGED <<lowerVars, solveVars, storeVars, langVars, run_path, run_query, nameless, checked, tables_read>>

\* the queries run: up to MaxClauses clauses of p/1 and q/1 with up to
\* MaxBody literals over atom/1, p/1 and q/1, asked for p(X)
RunLits ==
  {Lit(FALSE, "atom", <<VarV("X")>>)}
    \cup {Lit(n, f, <<VarV("X")>>) : n \in BOOLEAN, f \in {"p", "q"}}
RunClauses ==
  {Clause(Pred(f, <<VarV("X")>>), b) : f \in {"p", "q"}, b \in SeqsOf(RunLits, 1, MaxBody)}
RunQueries ==
  {Query(cs, Pred("p", <<VarV("X")>>)) : cs \in SeqsOf(RunClauses, 1, MaxClauses)}

InitRun ==
  /\ LowerIdle
  /\ SolveIdle
  /\ StoreIdle
  /\ LangIdle
  /\ run_path \in {"run_sqlite", "repl"}
  /\ run_query \in RunQueries
  /\ run_pc = "start"
  /\ nameless = None
  /\ checked = None
  /\ tables_read = <<>>

NextRun ==
  \/ RunFromQuery
  \/ RunValidate
  \/ ConnectionQuery
  \/ ReadTable
  \/ RunSolve

SpecRun == InitRun /\ [][NextRun]_allVars

\* C9: on every path that runs a query, facts are read only after
\* validation of the query has completed successfully: a query that
\* NamelessQuery::validate rejects never has a table read for it.
C9_NoFactReadBeforeValidation ==
  tables_read # <<>> => (nameless.tag = "Ok" /\ NamelessValidate(nameless) = Ok)

(***************************************************************************)
(* naive_solve.rs.  The solver reads a clause as args, body (a list of     *)
(* (negated, predicate)) and vars; a NamelessClause is handed to it with   *)
(* its head as args and its positive literals before its negated ones.     *)
(***************************************************************************)
SolverClause(c) ==
  [args |-> c.head,
   body |-> [b \in 1..Len(c.body_pos) |-> [neg |-> FALSE, pred |-> c.body_pos[b]]]
              \o [b \in 1..Len(c.body_neg) |-> [neg |-> TRUE, pred |-> c.body_neg[b]]],
   vars |-> c.vars]

SolverQuery(q) ==
  [clauses |-> [i \in 1..Len(q.clauses) |->
                  [c \in 1..Len(q.clauses[i]) |-> SolverClause(q.clauses[i][c])]],
   goal |-> q.goal,
   goal_vars |-> q.goal_vars]

\* State: the predicate with name i is states[i + 1]
StateDefault == [frozen |-> FALSE, new |-> {}, old |-> {}]

\* State.clauses of the predicate with name i
ClausesOf(q, i) == IF i < 5 THEN <<>> ELSE q.clauses[i - 4]

\* Model::clause_satisfiable
ClauseSatisfiable(sts, clause) ==
  IF \A b \in 1..Len(clause.body) : sts[clause.body[b].pred.name + 1].new = {}
  THEN {}
  ELSE {[v \in 1..clause.vars |-> [k |-> "Var", n |-> v - 1]]}

\* no clause is ever skipped
SkippedNever(sts, clause) == FALSE

\* a clause with the negation of a predicate that is not frozen is skipped
Skipped(sts, clause) ==
  \E b \in 1..Len(clause.body) :
    clause.body[b].neg /\ ~sts[clause.body[b].pred.name + 1].frozen

\* one pass of the `loop` of propagate over the clauses of predicate i:
\* the tuples generated that are neither in old nor in new
IterTuples(q, sts, i) ==
  UNION {IF Skipped(sts, ClausesOf(q, i)[c]) THEN {}
         ELSE ClauseSatisfiable(sts, ClausesOf(q, i)[c]) :
         c \in 1..Len(ClausesOf(q, i))}
    \ (sts[i + 1].old \cup sts[i + 1].new)

\* the `loop` for predicate i and the `new.retain` after it
RECURSIVE SweepPredicate(_, _, _)
SweepPredicate(q, sts, i) ==
  IF IterTuples(q, sts, i) = {}
  THEN [sts EXCEPT ![i + 1].new = @ \ sts[i + 1].old]
  ELSE SweepPredicate(q, [sts EXCEPT ![i + 1].new = @ \cup IterTuples(q, sts, i)], i)

\* `for i in start..self.states.len()`
RECURSIVE Sweep(_, _, _)
Sweep(q, sts, i) ==
  IF i >= Len(sts) THEN sts
  ELSE Sweep(q, SweepPredicate(q, sts, i), i + 1)

\* the last loop with old overwritten by new instead of extended
MoveNewOverOld(sts, start) ==
  [j \in 1..Len(sts) |->
     IF j - 1 >= start
     THEN [sts[j] EXCEPT !.old = sts[j].new, !.new = {}]
     ELSE sts[j]]

\* the last loop over self.states[start + 1..]
MoveNewToOldAfter(sts, start) ==
  [j \in 1..Len(sts) |->
     IF j - 1 > start
     THEN [sts[j] EXCEPT !.old = @ \cup sts[j].new, !.new = {}]
     ELSE sts[j]]

\* the last loop of propagate: new is moved to old from start on
MoveNewToOld(sts, start) ==
  [j \in 1..Len(sts) |->
     IF j - 1 >= start
     THEN [sts[j] EXCEPT !.old = @ \cup sts[j].new, !.new = {}]
     ELSE sts[j]]

\* Model::propagate
Propagate(q, sts) ==
  IF \A j \in 1..Len(sts) : sts[j].new = {}
  THEN sts
  ELSE MoveNewToOld(Sweep(q, sts, Min({j \in 1..Len(sts) : sts[j].new # {}}) - 1),
                    Min({j \in 1..Len(sts) : sts[j].new # {}}) - 1)

\* the facts among the clauses of predicate i, and whether one of them
\* trips assert_eq!(clause.vars, 0)
FactsOf(q, i) ==
  {ClausesOf(q, i)[c].args :
     c \in {x \in 1..Len(ClausesOf(q, i)) : ClausesOf(q, i)[x].body = <<>>}}
FactWithVars(q) ==
  \E i \in 1..Len(q.clauses) : \E c \in 1..Len(q.clauses[i]) :
    q.clauses[i][c].body = <<>> /\ q.clauses[i][c].vars # 0

\* "Fill out the facts in the query": for every predicate, its facts are
\* inserted into new and the model is propagated
RECURSIVE FillFacts(_, _, _)
FillFacts(q, sts, i) ==
  IF i >= Len(sts) THEN sts
  ELSE FillFacts(q, Propagate(q, [sts EXCEPT ![i + 1].new = @ \cup FactsOf(q, i)]), i + 1)

\* "Freeze all the streamed predicates"
Freeze(sts) ==
  [j \in 1..Len(sts) |-> IF j - 1 <= 4 THEN [sts[j] EXCEPT !.frozen = TRUE] ELSE sts[j]]

Panic(msg) == [tag |-> "Panic", msg |-> msg]
\* the error with its value lost
ErrOpaque(e) == [tag |-> "Err", error |-> "error"]
\* `result?`: the error of the stream, returned as it is
Err(e) == [tag |-> "Err", error |-> e]

(***************************************************************************)
(* naive_solve: the model is built and the facts of the query filled in;   *)
(* then every tuple the merged fact streams deliver is pushed into the     *)
(* model; when the streams end the streamed predicates are frozen and the  *)
(* model propagated once more.                                             *)
(***************************************************************************)
Str(x) == [k |-> "Str", s |-> x]

\* a tuple a fact stream delivers, as naive_solve maps it, or an error
Fact(name, args) == [tag |-> "Ok", name |-> name, args |-> [a \in 1..Len(args) |-> Str(args[a])]]
StreamError(e) == [tag |-> "Err", error |-> e]

Exhausted(st) == st.pos = Len(st.items)

SolveBegin ==
  /\ solve_pc = "begin"
  /\ IF FactWithVars(solve_query)
     THEN /\ states' = [i \in 1..(5 + Len(solve_query.clauses)) |-> StateDefault]
          /\ result' = Panic("assertion failed: clause.vars == 0")
          /\ solve_pc' = "ended"
     ELSE /\ states' = FillFacts(solve_query,
                                 [i \in 1..(5 + Len(solve_query.clauses)) |-> StateDefault], 0)
          /\ result' = result
          /\ solve_pc' = "stream"
  /\ UNCHANGED <<lowerVars, runVars, storeVars, langVars, solve_query, streams>>

\* `while let Some(result) = stream.next().await`: select yields the next
\* item of any stream that has one
StreamNext ==
  /\ solve_pc = "stream"
  /\ \E i \in 1..Len(streams) :
       /\ ~Exhausted(streams[i])
       /\ streams' = [streams EXCEPT ![i].pos = @ + 1]
       /\ LET item == streams[i].items[streams[i].pos + 1]
          IN IF item.tag = "Err"
             THEN /\ result' = Err(item.error)
                  /\ solve_pc' = "ended"
                  /\ states' = states
             ELSE /\ states' = Propagate(solve_query,
                                 [states EXCEPT ![item.name + 1].new = @ \cup {item.args}])
                  /\ UNCHANGED <<result, solve_pc>>
  /\ UNCHANGED <<lowerVars, runVars, storeVars, langVars, solve_query>>

\* the streams have ended: freeze, propagate, and the `unimplemented!()`
\* the function ends in
StreamEnd ==
  /\ solve_pc = "stream"
  /\ \A i \in 1..Len(streams) : Exhausted(streams[i])
  /\ states' = Propagate(solve_query, Freeze(states))
  /\ result' = Panic("not implemented")
  /\ solve_pc' = "ended"
  /\ UNCHANGED <<lowerVars, runVars, storeVars, langVars, solve_query, streams>>

\* the queries solved, as from_str returns them
PathQuery ==
  Query(<<Clause(Pred("path", <<VarV("X"), VarV("Y")>>),
                 <<Lit(FALSE, "edge", <<VarV("X"), VarV("Y"), Hole>>)>>),
          Clause(Pred("path", <<VarV("X"), VarV("Z")>>),
                 <<Lit(FALSE, "edge", <<VarV("X"), VarV("Y"), Hole>>),
                   Lit(FALSE, "path", <<VarV("Y"), VarV("Z")>>)>>)>>,
        Pred("path", <<StrV("D"), VarV("X")>>))

ReachQuery ==
  Query(<<Clause(Pred("start", <<StrV("A")>>), <<>>),
          Clause(Pred("reach", <<VarV("X")>>), <<Lit(FALSE, "start", <<VarV("X")>>)>>)>>,
        Pred("reach", <<VarV("X")>>))

RelQuery ==
  Query(<<Clause(Pred("rel", <<VarV("X"), VarV("Y")>>),
                 <<Lit(FALSE, "edge", <<VarV("X"), VarV("Y"), StrV("x")>>),
                   Lit(TRUE, "edge", <<VarV("Y"), VarV("X"), StrV("ignore")>>)>>)>>,
        Pred("rel", <<VarV("X"), VarV("Y")>>))

SolveQueries ==
  {SolverQuery(r) :
     r \in {x \in FromQuery(PathQuery) \cup FromQuery(ReachQuery) \cup FromQuery(RelQuery) :
              x.tag = "Ok" /\ NamelessValidate(x) = Ok}}

\* the facts in the database: some of the edges A->B, B->C, C->D, D->B in
\* some order, or the labelled edges A->B and B->A, or edges with a
\* transport error among them; and at most one atom, with or without an
\* error
EdgeFacts ==
  {Fact(2, <<"A", "B", "l">>), Fact(2, <<"B", "C", "l">>),
   Fact(2, <<"C", "D", "l">>), Fact(2, <<"D", "B", "l">>)}
LabelledEdges == <<Fact(2, <<"A", "B", "x">>), Fact(2, <<"B", "A", "ignore">>)>>
EdgeStreams ==
  {es \in SeqsOf(EdgeFacts, 0, MaxFacts) : \A i, j \in 1..Len(es) : i # j => es[i] # es[j]}
    \cup {<<LabelledEdges[1]>>, LabelledEdges, <<LabelledEdges[2], LabelledEdges[1]>>}
    \cup {<<StreamError("e2")>>, <<Fact(2, <<"A", "B", "l">>), StreamError("e2")>>,
          <<StreamError("e2"), Fact(2, <<"A", "B", "l">>)>>}
AtomStreams ==
  {<<>>, <<Fact(0, <<"A">>)>>, <<StreamError("e1")>>, <<Fact(0, <<"A">>), StreamError("e1")>>}

InitSolve ==
  /\ LowerIdle
  /\ RunIdle
  /\ StoreIdle
  /\ LangIdle
  /\ solve_query \in SolveQueries
  /\ \E atoms \in AtomStreams, edges \in EdgeStreams :
       streams = [i \in 1..5 |->
                    [items |-> IF i = 1 THEN atoms ELSE IF i = 3 THEN edges ELSE <<>>,
                     pos |-> 0]]
  /\ states = <<>>
  /\ solve_pc = "begin"
  /\ result = None

NextSolve ==
  \/ SolveBegin
  \/ StreamNext
  \/ StreamEnd

SpecSolve == InitSolve /\ [][NextSolve]_allVars

\* the edges delivered, as pairs, and the tuples of path they entail
EdgePairs == {<<f.args[1], f.args[2]>> : f \in {x \in Range(streams[3].items) : x.tag = "Ok"}}
PathClosure == TransitiveClosure(EdgePairs)

\* the tuples of path (predicate 5 of the path query) the model holds
PathTuples == states[6].old \cup states[6].new

SolvingPath == solve_query \in {SolverQuery(r) : r \in FromQuery(PathQuery)}

\* C10: when the solver has worked through the path query over the edge
\* facts, the tuples of path are exactly the transitive closure of edge; with
\* the edges A->B, B->C, C->D, D->B the goal path("D", X) has exactly the
\* answers B, C and D.
C10_PathIsTransitiveClosure ==
  (solve_pc = "ended" /\ SolvingPath /\ result.tag # "Err") =>
    /\ PathTuples = {<<r[1], r[2]>> : r \in PathClosure}
    /\ Len(streams[3].items) = 4 =>
         {t[2] : t \in {u \in PathTuples : u[1] = Str("D")}} = {Str("B"), Str("C"), Str("D")}

\* the tuples of rel (predicate 5 of the rel query) the model holds
RelTuples == states[6].old \cup states[6].new

SolvingRel == solve_query \in {SolverQuery(r) : r \in FromQuery(RelQuery)}

\* C11: a clause with a negated literal derives a head tuple only where the
\* negated tuple is absent: with the facts edge("A","B","x") and
\* edge("B","A","ignore") the clause
\* `rel(X,Y) :- edge(X,Y,"x"), !edge(Y,X,"ignore").` derives nothing, and
\* with edge("A","B","x") alone it derives exactly (A, B).
C11_NegationFiltersTuples ==
  (solve_pc = "ended" /\ SolvingRel /\ result.tag # "Err") =>
    /\ Range(streams[3].items) = Range(LabelledEdges) => RelTuples = {}
    /\ Range(streams[3].items) = {LabelledEdges[1]} =>
         RelTuples = {<<Str("A"), Str("B")>>}

(***************************************************************************)
(* The model a run ends with, computed from the set of the facts alone:    *)
(* the facts are pushed one after the other in an order fixed by the set.  *)
(***************************************************************************)
Delivered ==
  UNION {{x \in Range(streams[i].items) : x.tag = "Ok"} : i \in 1..Len(streams)}

RECURSIVE PushFacts(_, _, _)
PushFact(q, sts, S, f) ==
  PushFacts(q, Propagate(q, [sts EXCEPT ![f.name + 1].new = @ \cup {f.args}]), S \ {f})

PushFacts(q, sts, S) ==
  IF S = {} THEN sts ELSE PushFact(q, sts, S, CHOOSE f \in S : TRUE)

ModelOf(q, S) ==
  Propagate(q, Freeze(PushFacts(q,
    FillFacts(q, [i \in 1..(5 + Len(q.clauses)) |-> StateDefault], 0), S)))

\* the streams were read to their end without an error
StreamsEnded == solve_pc = "ended" /\ result = Panic("not implemented")

\* C13: for a fixed query and fixed facts, whatever the order in which the
\* merged streams deliver their tuples and whatever the order within a
\* stream, the run ends with the same old set for every predicate: the one
\* that the set of the facts determines.
C13_OrderIndependent ==
  StreamsEnded =>
    \A i \in 1..Len(states) : states[i].old = ModelOf(solve_query, Delivered)[i].old

\* a run over an atom and three edges has ended with tuples for path
C13_Witness ==
  /\ StreamsEnded
  /\ SolvingPath
  /\ Len(streams[1].items) = 1
  /\ Len(streams[3].items) = 3
  /\ Cardinality(states[3].old) = 3
  /\ states[6].old # {}

\* C14: a run of the solver on a query the validator accepts, over finite
\* fact streams, ends by returning: the answers, or the error of a stream.
C14_SolverReturns ==
  solve_pc = "ended" => result.tag \in {"Ok", "Err"}

\* the error items pulled so far, as <<stream, position>>
PulledErrors ==
  {ik \in UNION {{<<i, k>> : k \in 1..streams[i].pos} : i \in 1..Len(streams)} :
     streams[ik[1]].items[ik[2]].tag = "Err"}

\* C15: when a stream yields an error, naive_solve stops at that item: the
\* result is an error exactly when an error item has been pulled, it is the
\* value of that item, that item is the last one pulled from its stream and
\* the only error pulled, the run has ended, and there are no answers.
C15_StreamErrorStops ==
  /\ (result.tag = "Err") <=> (PulledErrors # {})
  /\ result.tag = "Err" =>
       /\ solve_pc = "ended"
       /\ Cardinality(PulledErrors) = 1
       /\ \A ik \in PulledErrors :
            /\ ik[2] = streams[ik[1]].pos
            /\ result = [tag |-> "Err", error |-> streams[ik[1]].items[ik[2]].error]

\* the edge stream failed with e2 while the atom stream, which holds an
\* error of its own, had not been pulled from
C15_Witness ==
  /\ result = [tag |-> "Err", error |-> "e2"]
  /\ streams[1].pos = 0
  /\ Len(streams[1].items) = 2
  /\ streams[3].pos = 2

(***************************************************************************)
(* g1-sqlite-connection: the database.  A table is the set of its rows;    *)
(* INITDB gives every table one unique constraint.                         *)
(***************************************************************************)
EmptyStore == [atoms |-> {}, names |-> {}, edges |-> {}, tags |-> {}, blobs |-> {}]

\* the columns of the unique constraint of each table
UniqueKey ==
  [atoms |-> <<1>>, names |-> <<2, 3>>, edges |-> <<1, 2, 3>>, tags |-> <<1, 2>>,
   blobs |-> <<1, 2, 3>>]

KeyOf(table, row) == [i \in 1..Len(UniqueKey[table]) |-> row[UniqueKey[table][i]]]

\* the rows of the table that row conflicts with
Conflicts(db, table, row) == {r \in db[table] : KeyOf(table, r) = KeyOf(table, row)}

\* the outcome of a statement: the database afterwards and the number of
\* rows changed, or a constraint violation (extended code 2067)
SqlOk(db, n) == [tag |-> "Ok", db |-> db, n |-> n]
ConstraintViolation(db) == [tag |-> "Err", db |-> db, n |-> 0]

\* `insert into table values row`
Insert(db, table, row) ==
  IF Conflicts(db, table, row) # {}
  THEN ConstraintViolation(db)
  ELSE SqlOk([db EXCEPT ![table] = @ \cup {row}], 1)

\* an insert that leaves the rows it conflicts with in place
InsertBesides(db, table, row) ==
  SqlOk([db EXCEPT ![table] = @ \cup {row}], 1)

\* `insert or replace into table values row`
InsertOrReplace(db, table, row) ==
  SqlOk([db EXCEPT ![table] = (@ \ Conflicts(db, table, row)) \cup {row}], 1)

\* `delete from table where cols = vals`
DeleteWhere(db, table, cols, vals) ==
  SqlOk([db EXCEPT ![table] = {r \in @ : \E i \in 1..Len(cols) : r[cols[i]] # vals[i]}],
        Cardinality({r \in db[table] : \A i \in 1..Len(cols) : r[cols[i]] = vals[i]}))

\* Transaction::finish: a transaction of conn.transaction() has the drop
\* behaviour Rollback, and finish acts on the drop behaviour
TxFinish(before, after) == before

(***************************************************************************)
(* Commands (cmd.rs) and what Command::run does with each (run.rs).        *)
(***************************************************************************)
Atoms == {"a1", "a2"}

CreateAtom == [op |-> "CreateAtom"]
DeleteAtom(atom) == [op |-> "DeleteAtom", atom |-> atom]
CreateName(atom, ns, title, upsert) ==
  [op |-> "CreateName", atom |-> atom, ns |-> ns, title |-> title, upsert |-> upsert]
DeleteName(ns, title) == [op |-> "DeleteName", ns |-> ns, title |-> title]
CreateEdge(from, to, label) == [op |-> "CreateEdge", from |-> from, to |-> to, label |-> label]
DeleteEdge(from, to, label) == [op |-> "DeleteEdge", from |-> from, to |-> to, label |-> label]
CreateTag(atom, key, value, upsert) ==
  [op |-> "CreateTag", atom |-> atom, key |-> key, value |-> value, upsert |-> upsert]
DeleteTag(atom, key) == [op |-> "DeleteTag", atom |-> atom, key |-> key]
CreateBlob(atom, kind, mime, hash, upsert) ==
  [op |-> "CreateBlob", atom |-> atom, kind |-> kind, mime |-> mime, hash |-> hash,
   upsert |-> upsert]
DeleteBlob(atom, kind, mime) == [op |-> "DeleteBlob", atom |-> atom, kind |-> kind, mime |-> mime]
QueryCommand(limit, q) == [op |-> "Query", limit |-> limit, query |-> q]

\* what with_sender sends back
ReplyOk(v) == [tag |-> "Ok", value |-> v]
ReplyErr(e) == [tag |-> "Err", error |-> e]

\* the outcome of a command: the database afterwards and the reply
Outcome(db, reply) == [db |-> db, reply |-> reply]

\* the number of retries of CreateAtom
Retries == 3

\* Command::CreateAtom: Atom::new() is random; a collision is retried
RECURSIVE CreateAtomLoop(_, _)
CreateAtomTry(db, retries, atom, r) ==
  IF r.tag = "Ok" THEN {Outcome(r.db, ReplyOk(atom))}
  ELSE IF retries > 0 THEN CreateAtomLoop(db, retries - 1)
  ELSE {Outcome(db, ReplyErr("SQLite"))}

CreateAtomLoop(db, retries) ==
  UNION {CreateAtomTry(db, retries, atom, Insert(db, "atoms", <<atom>>)) : atom \in Atoms}

\* Command::DeleteAtom: five deletes in a transaction, then tx.finish()
DeleteAtomRows(db, atom) ==
  DeleteWhere(
    DeleteWhere(
      DeleteWhere(
        DeleteWhere(
          DeleteWhere(db, "names", <<1>>, <<atom>>).db,
          "edges", <<1>>, <<atom>>).db,
        "edges", <<2>>, <<atom>>).db,
      "tags", <<1>>, <<atom>>).db,
    "blobs", <<1>>, <<atom>>).db

\* a create with `upsert`: Ok(()) unless the statement failed
Created(r) ==
  IF r.tag = "Ok" THEN Outcome(r.db, ReplyOk("unit")) ELSE Outcome(r.db, ReplyErr("SQLite"))

\* a delete: whether a row was deleted
Deleted(r) == Outcome(r.db, ReplyOk(r.n # 0))

\* Command::run for every command but Query: the outcomes it can have
Execute(cmd, db) ==
  IF cmd.op = "CreateAtom" THEN CreateAtomLoop(db, Retries)
  ELSE IF cmd.op = "DeleteAtom"
  THEN {Outcome(TxFinish(db, DeleteAtomRows(db, cmd.atom)), ReplyOk("unit"))}
  ELSE IF cmd.op = "CreateName"
  THEN {Created(IF cmd.upsert
                THEN InsertOrReplace(db, "names", <<cmd.atom, cmd.ns, cmd.title>>)
                ELSE Insert(db, "names", <<cmd.atom, cmd.ns, cmd.title>>))}
  ELSE IF cmd.op = "DeleteName"
  THEN {Deleted(DeleteWhere(db, "names", <<2, 3>>, <<cmd.ns, cmd.title>>))}
  ELSE IF cmd.op = "CreateEdge"
  THEN {Outcome(Insert(db, "edges", <<cmd.from, cmd.to, cmd.label>>).db,
                ReplyOk(Insert(db, "edges", <<cmd.from, cmd.to, cmd.label>>).tag = "Err"))}
  ELSE IF cmd.op = "DeleteEdge"
  THEN {Deleted(DeleteWhere(db, "edges", <<1, 2, 3>>, <<cmd.from, cmd.to, cmd.label>>))}
  ELSE IF cmd.op = "CreateTag"
  THEN {Created(IF cmd.upsert
                THEN InsertOrReplace(db, "tags", <<cmd.atom, cmd.key, cmd.value>>)
                ELSE Insert(db, "tags", <<cmd.atom, cmd.key, cmd.value>>))}
  ELSE IF cmd.op = "DeleteTag"
  THEN {Deleted(DeleteWhere(db, "tags", <<1, 2>>, <<cmd.atom, cmd.key>>))}
  ELSE IF cmd.op = "CreateBlob"
  THEN {Created(IF cmd.upsert
                THEN InsertOrReplace(db, "blobs", <<cmd.atom, cmd.kind, cmd.mime, cmd.hash>>)
                ELSE Insert(db, "blobs", <<cmd.atom, cmd.kind, cmd.mime, cmd.hash>>))}
  ELSE {Deleted(DeleteWhere(db, "blobs", <<1, 2, 3>>, <<cmd.atom, cmd.kind, cmd.mime>>))}

(***************************************************************************)
(* SqliteConnection (lib.rs): callers go through send_command, which locks *)
(* the sender, sends the command on the channel to the worker thread and   *)
(* awaits the reply on a oneshot channel; the lock guard lives until       *)
(* send_command returns.  The worker runs one command after the other.     *)
(***************************************************************************)
\* most operations called on the connection
MaxOps == 3

\* channel::<Command>(1)
ChannelCapacity == 1

Callers == {"c1", "c2"}

Some(n) == [tag |-> "Some", value |-> n]

\* the query `?- atom(X).`
AtomQuery == CHOOSE q \in FromQuery(Query(<<>>, Pred("atom", <<VarV("X")>>))) : TRUE

\* the operations called
Commands ==
  {CreateAtom, DeleteAtom("a1"), DeleteName("n", "t"),
   CreateEdge("a1", "a2", "l"), DeleteEdge("a1", "a2", "l"),
   CreateTag("a1", "k", "w", TRUE), DeleteTag("a1", "k"),
   CreateBlob("a2", "kind", "mime", "g", FALSE), DeleteBlob("a2", "kind", "mime"),
   QueryCommand(Some(1), AtomQuery)}
    \cup {CreateName("a2", "n", "t", u) : u \in BOOLEAN}

\* the database found when the connection is opened: a new one, or one
\* with rows in every table
PopulatedStore ==
  [atoms |-> {<<"a1">>, <<"a2">>},
   names |-> {<<"a1", "n", "t">>},
   edges |-> {<<"a1", "a2", "l">>, <<"a2", "a1", "m">>},
   tags |-> {<<"a1", "k", "v">>, <<"a2", "k", "v">>},
   blobs |-> {<<"a1", "kind", "mime", "h">>, <<"a2", "kind", "mime", "h">>}]

NoCall == [pc |-> "idle", cmd |-> None, id |-> 0, slot |-> None, reply |-> None]

\* the sender of the oneshot channel was dropped without a reply
Dropped == [tag |-> "Dropped"]

\* send_command begins: oneshot::channel(), then self.send.lock().await
Call(c) ==
  /\ callers[c].pc = "idle"
  /\ ops < MaxOps
  /\ \E cmd \in Commands :
       callers' = [callers EXCEPT ![c] = [pc |-> "lock", cmd |-> cmd, id |-> ops + 1,
                                          slot |-> None, reply |-> None]]
  /\ ops' = ops + 1
  /\ UNCHANGED <<lowerVars, runVars, solveVars, langVars, store, mutex, channel, worker, snap,
                 sent_log, run_log>>

\* the lock is acquired
Lock(c) ==
  /\ callers[c].pc = "lock"
  /\ mutex = "free"
  /\ mutex' = c
  /\ callers' = [callers EXCEPT ![c].pc = "send"]
  /\ UNCHANGED <<lowerVars, runVars, solveVars, langVars, store, channel, worker, snap, ops,
                 sent_log, run_log>>

\* the guard released as soon as the command is sent
ReleasedAfterSend(c) == "free"

\* who holds the lock once the command is sent: the guard is still alive
HolderAfterSend(c) == c

\* send_send.send(make_command(send)).await: an error when the worker is
\* gone, which send_command returns as SQLitePanic
Send(c) ==
  /\ callers[c].pc = "send"
  /\ IF worker.pc = "dead"
     THEN /\ callers' = [callers EXCEPT ![c].pc = "idle",
                                        ![c].reply = ReplyErr("SQLitePanic")]
          /\ mutex' = "free"
          /\ UNCHANGED <<channel, sent_log>>
     ELSE /\ Len(channel) < ChannelCapacity
          /\ channel' = Append(channel, [cmd |-> callers[c].cmd, caller |-> c,
                                         id |-> callers[c].id])
          /\ sent_log' = Append(sent_log, callers[c].id)
          /\ callers' = [callers EXCEPT ![c].pc = "recv"]
          /\ mutex' = HolderAfterSend(c)
  /\ UNCHANGED <<lowerVars, runVars, solveVars, langVars, store, worker, snap, ops, run_log>>

\* recv.await: the reply, or SQLitePanic when the sender was dropped; then
\* send_command returns and the guard is dropped
Reply(c) ==
  /\ callers[c].pc = "recv"
  /\ callers[c].slot # None
  /\ callers' = [callers EXCEPT ![c].pc = "idle",
                                ![c].reply = IF callers[c].slot = Dropped
                                             THEN ReplyErr("SQLitePanic")
                                             ELSE callers[c].slot]
  /\ mutex' = IF mutex = c THEN "free" ELSE mutex
  /\ UNCHANGED <<lowerVars, runVars, solveVars, langVars, store, channel, worker, snap, ops,
                 sent_log, run_log>>

\* the worker: `while let Some(cmd) = block_on(recv.recv())`
WorkerRecv ==
  /\ worker.pc = "recv"
  /\ channel # <<>>
  /\ worker' = [pc |-> "run", cmd |-> Head(channel).cmd, caller |-> Head(channel).caller,
                reads |-> <<>>, reply |-> None]
  /\ channel' = Tail(channel)
  /\ snap' = store
  /\ run_log' = Append(run_log, Head(channel).id)
  /\ UNCHANGED <<lowerVars, runVars, solveVars, langVars, store, mutex, callers, ops, sent_log>>

\* cmd.run(&mut conn) for every command but Query
WorkerRun ==
  /\ worker.pc = "run"
  /\ worker.cmd.op # "Query"
  /\ \E out \in Execute(worker.cmd, store) :
       /\ store' = out.db
       /\ worker' = [worker EXCEPT !.pc = "recv", !.reply = out.reply]
       /\ callers' = [callers EXCEPT ![worker.caller].slot = out.reply]
  /\ UNCHANGED <<lowerVars, runVars, solveVars, langVars, mutex, channel, snap, ops, sent_log, run_log>>

\* the table the n-th select of the Query command reads
SelectStale(n) == IF TABLES[n] = "names" THEN "tags" ELSE TABLES[n]
SelectSql(n) == TABLES[n]

\* Command::Query: the selects, one after the other
WorkerRead ==
  /\ worker.pc = "run"
  /\ worker.cmd.op = "Query"
  /\ Len(worker.reads) < Len(TABLES)
  /\ worker' = [worker EXCEPT !.reads = Append(@, store[SelectSql(Len(worker.reads) + 1)])]
  /\ UNCHANGED <<lowerVars, runVars, solveVars, langVars, store, mutex, channel, callers, snap, ops,
                 sent_log, run_log>>

\* Command::Query: tx.finish() and naive_solve, which ends in
\* unimplemented!(): the worker thread dies, the receiver of the channel
\* and the senders of the replies are dropped
WorkerSolve ==
  /\ worker.pc = "run"
  /\ worker.cmd.op = "Query"
  /\ Len(worker.reads) = Len(TABLES)
  /\ store' = TxFinish(store, store)
  /\ worker' = [worker EXCEPT !.pc = "dead", !.reply = Panic("not implemented")]
  /\ callers' = [c \in Callers |->
                   IF c = worker.caller \/ \E i \in 1..Len(channel) : channel[i].caller = c
                   THEN [callers[c] EXCEPT !.slot = Dropped]
                   ELSE callers[c]]
  /\ channel' = <<>>
  /\ UNCHANGED <<lowerVars, runVars, solveVars, langVars, mutex, snap, ops, sent_log, run_log>>

InitStore ==
  /\ LowerIdle
  /\ RunIdle
  /\ SolveIdle
  /\ LangIdle
  /\ store \in {EmptyStore, PopulatedStore}
  /\ mutex = "free"
  /\ channel = <<>>
  /\ worker = [pc |-> "recv", cmd |-> None, caller |-> "", reads |-> <<>>, reply |-> None]
  /\ callers = [c \in Callers |-> NoCall]
  /\ snap = store
  /\ ops = 0
  /\ sent_log = <<>>
  /\ run_log = <<>>

NextStore ==
  \/ \E c \in Callers : Call(c)
  \/ \E c \in Callers : Lock(c)
  \/ \E c \in Callers : Send(c)
  \/ \E c \in Callers : Reply(c)
  \/ WorkerRecv
  \/ WorkerRun
  \/ WorkerRead
  \/ WorkerSolve

SpecStore == InitStore /\ [][NextStore]_allVars

\* the commands queued or executing
InFlight == Len(channel) + (IF worker.pc = "run" THEN 1 ELSE 0)

IsPrefix(s, t) == Len(s) <= Len(t) /\ \A i \in 1..Len(s) : s[i] = t[i]

\* C17: with concurrent callers at most one command is in flight (queued
\* or executing) at any time, the worker executes the commands in the
\* order they were sent, and the store changes only while the worker
\* executes a command.
C17_Serialized ==
  [][/\ InFlight' <= 1
     /\ IsPrefix(run_log', sent_log')
     /\ (store' # store => worker.pc = "run" /\ worker'.pc = "recv")]_allVars

\* a command executes while the second caller waits for the lock
C17_Witness ==
  \E c, d \in Callers :
    /\ c # d
    /\ callers[c].pc = "recv" /\ callers[c].slot = None
    /\ worker.pc = "run" /\ worker.caller = c
    /\ callers[d].pc = "lock"
    /\ mutex = c

\* C16: a Query command sees one snapshot: each of its five reads is the
\* table as it was when the query started, and the store does not change
\* while the query runs.
C16_QuerySnapshot ==
  (worker.pc \in {"run", "dead"} /\ worker.cmd.op = "Query") =>
    /\ store = snap
    /\ \A k \in 1..Len(worker.reads) : worker.reads[k] = snap[TABLES[k]]

\* the five reads are done over a store with rows while another caller
\* waits with a create
C16_Witness ==
  /\ worker.pc = "run" /\ worker.cmd.op = "Query"
  /\ Len(worker.reads) = Len(TABLES)
  /\ worker.reads[1] # {} /\ worker.reads[2] # {}
  /\ \E d \in Callers : callers[d].pc = "lock" /\ callers[d].cmd.op = "CreateTag"

\* the rows of names bound to the (namespace, title) of the command
Bound(db, cmd) == {r \in db.names : r[2] = cmd.ns /\ r[3] = cmd.title}

\* the worker has executed a command of the given kind
Executed(op) == worker.pc = "recv" /\ worker.cmd # None /\ worker.cmd.op = op

\* C18: at most one atom is bound to each (namespace, title); create_name
\* with upsert = false on a bound name is an error and changes nothing,
\* and with upsert = true it replaces the binding by the new atom.
C18_NamesUnique ==
  /\ \A r1, r2 \in store.names : (r1[2] = r2[2] /\ r1[3] = r2[3]) => r1 = r2
  /\ Executed("CreateName") =>
       IF worker.cmd.upsert
       THEN /\ worker.reply = ReplyOk("unit")
            /\ store.names = (snap.names \ Bound(snap, worker.cmd))
                               \cup {<<worker.cmd.atom, worker.cmd.ns, worker.cmd.title>>}
       ELSE IF Bound(snap, worker.cmd) # {}
       THEN worker.reply.tag = "Err" /\ store = snap
       ELSE /\ worker.reply = ReplyOk("unit")
            /\ store.names = snap.names
                               \cup {<<worker.cmd.atom, worker.cmd.ns, worker.cmd.title>>}

\* an upsert has replaced the binding of the name to another atom
C18_Witness ==
  /\ Executed("CreateName") /\ worker.cmd.upsert
  /\ Bound(snap, worker.cmd) = {<<"a1", "n", "t">>}
  /\ Bound(store, worker.cmd) = {<<"a2", "n", "t">>}

\* the rows of the table that mention the atom
RowsOf(db, table, atom) ==
  {r \in db[table] : r[1] = atom \/ (table = "edges" /\ r[2] = atom)}

\* C19: delete_atom(a) removes every name, edge, tag and blob of a, leaves
\* the rows of other atoms and the atoms relation unchanged.
C19_DeleteAtomRemoves ==
  Executed("DeleteAtom") =>
    /\ store.atoms = snap.atoms
    /\ \A t \in {"names", "edges", "tags", "blobs"} :
         store[t] = snap[t] \ RowsOf(snap, t, worker.cmd.atom)

\* C12: a query with limit Some(n) returns exactly min(n, number of
\* answers) tuples, distinct and each one an answer; query_first gets at
\* most one tuple, and one iff there is an answer.
C12_LimitedAnswers ==
  \A c \in Callers :
    (callers[c].pc = "idle" /\ callers[c].cmd # None /\ callers[c].cmd.op = "Query"
       /\ callers[c].cmd.limit # None) =>
      /\ callers[c].reply.tag = "Ok"
      /\ Len(callers[c].reply.value) = Min({callers[c].cmd.limit.value, Cardinality(store.atoms)})
      /\ \A i \in 1..Len(callers[c].reply.value) : callers[c].reply.value[i] \in store.atoms
      /\ \A i, j \in 1..Len(callers[c].reply.value) :
           callers[c].reply.value[i] = callers[c].reply.value[j] => i = j

(***************************************************************************)
(* The query language (lang/mod.rs, lang/lexer.rs): Display prints an AST, *)
(* FromStr lexes and parses it.  A text is a sequence of characters, each  *)
(* a string of length one.                                                 *)
(***************************************************************************)
\* longest name or string of a printed AST
MaxName == 2

Upper ==
  {"A", "B", "C", "D", "E", "F", "G", "H", "I", "J", "K", "L", "M",
   "N", "O", "P", "Q", "R", "S", "T", "U", "V", "W", "X", "Y", "Z"}
Lower ==
  {"a", "b", "c", "d", "e", "f", "g", "h", "i", "j", "k", "l", "m",
   "n", "o", "p", "q", "r", "s", "t", "u", "v", "w", "x", "y", "z"}
Digits == {"0", "1", "2", "3", "4", "5", "6", "7", "8", "9"}

\* ValueInner::Hole; its text is `_`
HoleV == [t |-> "hole", s |-> <<"_">>]

\* char::escape_default
EscapeDefault(ch) ==
  IF ch = "\t" THEN <<"\\", "t">>
  ELSE IF ch = "\r" THEN <<"\\", "r">>
  ELSE IF ch = "\n" THEN <<"\\", "n">>
  ELSE IF ch \in {"'", "\"", "\\"} THEN <<"\\", ch>>
  ELSE <<ch>>

\* the Debug form of a character of a str: as escape_default, but a single
\* quote is written as it is
EscapeDebug(ch) == IF ch = "'" THEN <<ch>> ELSE EscapeDefault(ch)

RECURSIVE EscapeStr(_)
EscapeStr(s) == IF s = <<>> THEN <<>> ELSE EscapeDefault(Head(s)) \o EscapeStr(Tail(s))

RECURSIVE DebugChars(_)
DebugChars(s) == IF s = <<>> THEN <<>> ELSE EscapeDebug(Head(s)) \o DebugChars(Tail(s))

\* write!(fmt, "{:?}", s)
DebugStr(s) == <<"\"">> \o DebugChars(s) \o <<"\"">>

fmt_var(s) ==
  IF Len(s) = 0 \/ ~(\A i \in 1..Len(s) : s[i] \in Upper \cup Lower \cup {"_", "-"})
  THEN <<"'">> \o EscapeStr(s) \o <<"'">>
  ELSE s

\* Display for ValueInner
ValueToString(v) ==
  IF v.t = "hole" THEN <<"_">>
  ELSE IF v.t = "str" THEN DebugStr(v.s)
  ELSE fmt_var(v.s)

RECURSIVE ArgsToString(_)
ArgsToString(args) ==
  IF args = <<>> THEN <<>>
  ELSE IF Len(args) = 1 THEN ValueToString(args[1])
  ELSE ValueToString(args[1]) \o <<",", " ">> \o ArgsToString(Tail(args))

\* Display for Predicate
PredicateToString(p) == fmt_var(p.name) \o <<"(">> \o ArgsToString(p.args) \o <<")">>

RECURSIVE BodyToString(_)
BodyToString(body) ==
  <<" ", " ", " ", " ">>
    \o (IF body[1].negated THEN <<"!">> ELSE <<>>)
    \o PredicateToString(body[1])
    \o (IF Len(body) = 1 THEN <<".">> ELSE <<",", "\n">> \o BodyToString(Tail(body)))

\* Display for Clause
ClauseToString(c) ==
  IF c.body = <<>>
  THEN PredicateToString(c.head) \o <<".">>
  ELSE PredicateToString(c.head) \o <<" ", ":", "-", "\n">> \o BodyToString(c.body)

RECURSIVE ClausesToString(_)
ClausesToString(cls) ==
  IF cls = <<>> THEN <<>>
  ELSE ClauseToString(Head(cls)) \o <<"\n">> \o ClausesToString(Tail(cls))

\* Display for Query
QueryToString(q) ==
  ClausesToString(q.clauses) \o <<"?", "-", " ">> \o PredicateToString(q.goal) \o <<".">>

Display(kind, ast) ==
  IF kind = "Value" THEN ValueToString(ast)
  ELSE IF kind = "Predicate" THEN PredicateToString(ast)
  ELSE IF kind = "Clause" THEN ClauseToString(ast)
  ELSE QueryToString(ast)

\* a token: its kind and, for String and Var, its contents
Token(t, s) == [t |-> t, s |-> s]

\* the end of the token String or EscapedVar whose body starts at i: the
\* index of the closing quote q, or 0 when the regex does not match
RECURSIVE QuotedEnd(_, _, _)
QuotedEnd(text, i, q) ==
  IF i > Len(text) THEN 0
  ELSE IF text[i] = q THEN i
  ELSE IF text[i] = "\\"
  THEN IF i + 1 <= Len(text) /\ text[i + 1] \in {"t", "r", "n", "'", "\"", "\\"}
       THEN QuotedEnd(text, i + 2, q)
       ELSE 0
  ELSE IF text[i] \in {"'", "\""} THEN 0
  ELSE QuotedEnd(text, i + 1, q)

\* the end of the token Var that starts before i: [A-Za-z][0-9A-Za-z_]*
RECURSIVE VarEnd(_, _)
VarEnd(text, i) ==
  IF i <= Len(text) /\ text[i] \in Upper \cup Lower \cup Digits \cup {"_"}
  THEN VarEnd(text, i + 1)
  ELSE i - 1

\* the end of the comment that starts before i
RECURSIVE CommentEnd(_, _)
CommentEnd(text, i) ==
  IF i <= Len(text) /\ text[i] \notin {"\r", "\n"} THEN CommentEnd(text, i + 1) ELSE i - 1

\* StringToken and the loop of parse_stringish, on the text between the
\* quotes
RECURSIVE Unescape(_)
Unescape(s) ==
  IF s = <<>> THEN <<>>
  ELSE IF Head(s) = "\\"
  THEN <<(IF s[2] = "t" THEN "\t" ELSE IF s[2] = "r" THEN "\r"
          ELSE IF s[2] = "n" THEN "\n" ELSE s[2])>> \o Unescape(SubSeq(s, 3, Len(s)))
  ELSE <<Head(s)>> \o Unescape(Tail(s))

parse_stringish(s) == Unescape(SubSeq(s, 2, Len(s) - 1))

LexError == [tag |-> "Err", error |-> "lexer error"]

\* Lexer::next until the end: the tokens of the text from i on, after the
\* tokens toks, or the error of the first Tok::Error; space between tokens
\* is skipped
RECURSIVE LexFrom(_, _, _)
LexFrom(text, i, toks) ==
  IF i > Len(text) THEN [tag |-> "Ok", value |-> toks]
  ELSE IF text[i] \in {" ", "\t", "\n", "\r"} THEN LexFrom(text, i + 1, toks)
  ELSE IF text[i] = "/" /\ i < Len(text) /\ text[i + 1] = "/"
  THEN LexFrom(text, CommentEnd(text, i + 2) + 1, toks)
  ELSE IF text[i] \in {")", "(", "_", ".", ",", "!"}
  THEN LexFrom(text, i + 1, Append(toks, Token(text[i], <<>>)))
  ELSE IF text[i] \in {"?", ":"} /\ i < Len(text) /\ text[i + 1] = "-"
  THEN LexFrom(text, i + 2, Append(toks, Token(IF text[i] = "?" THEN "?-" ELSE ":-", <<>>)))
  ELSE IF text[i] \in {"'", "\""}
  THEN IF QuotedEnd(text, i + 1, text[i]) = 0
       THEN LexError
       ELSE LexFrom(text, QuotedEnd(text, i + 1, text[i]) + 1,
                    Append(toks,
                           Token(IF text[i] = "'" THEN "Var" ELSE "String",
                                 parse_stringish(
                                   SubSeq(text, i, QuotedEnd(text, i + 1, text[i]))))))
  ELSE IF text[i] \in Upper \cup Lower
  THEN LexFrom(text, VarEnd(text, i + 1) + 1,
               Append(toks, Token("Var", SubSeq(text, i, VarEnd(text, i + 1)))))
  ELSE LexError

\* Lexer::new: the line of the last point, the offset of the newline before
\* it, and its offset
LexerNew == [last_line |-> 1, last_line_pos |-> 0, last_pos |-> 0]

\* the loop of Lexer::point over the bytes last_pos..n (offsets from 0:
\* the byte at offset i is text[i + 1])
RECURSIVE PointLoop(_, _, _)
PointLoop(text, lx, n) ==
  IF lx.last_pos >= n THEN lx
  ELSE PointLoop(text,
                 [last_line |-> IF text[lx.last_pos + 1] = "\n"
                                THEN lx.last_line + 1 ELSE lx.last_line,
                  last_line_pos |-> IF text[lx.last_pos + 1] = "\n"
                                    THEN lx.last_pos ELSE lx.last_line_pos,
                  last_pos |-> lx.last_pos + 1],
                 n)

\* Point(self.last_line, n - self.last_line_pos)
Point(lx, n) == <<lx.last_line, n - lx.last_line_pos>>

\* the length of the token that starts at text[i], 0 for Tok::Error
TokLen(text, i) ==
  IF text[i] \in {")", "(", "_", ".", ",", "!"} THEN 1
  ELSE IF text[i] \in {"?", ":"} /\ i < Len(text) /\ text[i + 1] = "-" THEN 2
  ELSE IF text[i] \in {"'", "\""}
  THEN IF QuotedEnd(text, i + 1, text[i]) = 0 THEN 0
       ELSE QuotedEnd(text, i + 1, text[i]) - i + 1
  ELSE IF text[i] \in Upper \cup Lower THEN VarEnd(text, i + 1) - i + 1
  ELSE 0

\* Lexer::range and the points of Lexer::next: the start and end of every
\* token from text[i] on, after the items given; the last item is the
\* point of the error when a token is Tok::Error
RECURSIVE LexPoints(_, _, _, _)
LexRange(text, i, len, start, end, items) ==
  LexPoints(text, i + len, end,
            Append(items, [offset |-> i - 1, start |-> Point(start, i - 1),
                           end |-> Point(end, i - 1 + len)]))

LexPoints(text, i, lx, items) ==
  IF i > Len(text) THEN items
  ELSE IF text[i] \in {" ", "\t", "\n", "\r"} THEN LexPoints(text, i + 1, lx, items)
  ELSE IF text[i] = "/" /\ i < Len(text) /\ text[i + 1] = "/"
  THEN LexPoints(text, CommentEnd(text, i + 2) + 1, lx, items)
  ELSE IF TokLen(text, i) = 0
  THEN Append(items, [offset |-> i - 1, start |-> Point(PointLoop(text, lx, i - 1), i - 1),
                      end |-> <<>>])
  ELSE LexRange(text, i, TokLen(text, i), PointLoop(text, lx, i - 1),
                PointLoop(text, lx, i - 1 + TokLen(text, i)), items)

\* The parser, by the grammar of the language:
\*   query     := { clause } "?-" predicate "."
\*   clause    := predicate ( "." | ":-" body "." )
\*   body      := bodyLit { "," bodyLit }
\*   bodyLit   := [ "!" ] predicate
\*   predicate := name "(" [ value { "," value } ] ")"
\*   value     := "_" | string | identifier
\*   name      := identifier
\* A parse gives the AST and the index of the next token, or fails.
Fail == [ok |-> FALSE]
Parsed(ast, next) == [ok |-> TRUE, ast |-> ast, next |-> next]

\* the kind of the i-th token, "" after the last
TokAt(toks, i) == IF i <= Len(toks) THEN toks[i].t ELSE ""

ParseValue(toks, i) ==
  IF TokAt(toks, i) = "_" THEN Parsed(HoleV, i + 1)
  ELSE IF TokAt(toks, i) = "String" THEN Parsed(StrV(toks[i].s), i + 1)
  ELSE IF TokAt(toks, i) = "Var" THEN Parsed(VarV(toks[i].s), i + 1)
  ELSE Fail

\* the values after "(" or ",", up to ")"
RECURSIVE ParseArgs(_, _, _)
ParseArgsNext(toks, r, args) ==
  IF ~r.ok THEN Fail
  ELSE IF TokAt(toks, r.next) = ")" THEN Parsed(Append(args, r.ast), r.next + 1)
  ELSE IF TokAt(toks, r.next) = "," THEN ParseArgs(toks, r.next + 1, Append(args, r.ast))
  ELSE Fail

ParseArgs(toks, i, args) == ParseArgsNext(toks, ParseValue(toks, i), args)

PredicateOf(name, r) == IF r.ok THEN Parsed(Pred(name, r.ast), r.next) ELSE Fail

ParsePredicate(toks, i) ==
  IF TokAt(toks, i) # "Var" \/ TokAt(toks, i + 1) # "(" THEN Fail
  ELSE IF TokAt(toks, i + 2) = ")" THEN Parsed(Pred(toks[i].s, <<>>), i + 3)
  ELSE PredicateOf(toks[i].s, ParseArgs(toks, i + 2, <<>>))

\* the literals after ":-" or ",", up to "."
RECURSIVE ParseBody(_, _, _)
ParseBodyNext(toks, negated, r, body) ==
  IF ~r.ok THEN Fail
  ELSE IF TokAt(toks, r.next) = "."
  THEN Parsed(Append(body, Lit(negated, r.ast.name, r.ast.args)), r.next + 1)
  ELSE IF TokAt(toks, r.next) = ","
  THEN ParseBody(toks, r.next + 1, Append(body, Lit(negated, r.ast.name, r.ast.args)))
  ELSE Fail

ParseBody(toks, i, body) ==
  IF TokAt(toks, i) = "!"
  THEN ParseBodyNext(toks, TRUE, ParsePredicate(toks, i + 1), body)
  ELSE ParseBodyNext(toks, FALSE, ParsePredicate(toks, i), body)

ClauseWith(head, r) == IF r.ok THEN Parsed(Clause(head, r.ast), r.next) ELSE Fail

ParseClauseNext(toks, r) ==
  IF ~r.ok THEN Fail
  ELSE IF TokAt(toks, r.next) = "." THEN Parsed(Clause(r.ast, <<>>), r.next + 1)
  ELSE IF TokAt(toks, r.next) = ":-" THEN ClauseWith(r.ast, ParseBody(toks, r.next + 1, <<>>))
  ELSE Fail

ParseClause(toks, i) == ParseClauseNext(toks, ParsePredicate(toks, i))

RECURSIVE ParseQuery(_, _, _)
ParseGoalNext(toks, r, cls) ==
  IF r.ok /\ TokAt(toks, r.next) = "." THEN Parsed(Query(cls, r.ast), r.next + 1) ELSE Fail

ParseQueryNext(toks, r, cls) ==
  IF r.ok THEN ParseQuery(toks, r.next, Append(cls, r.ast)) ELSE Fail

ParseQuery(toks, i, cls) ==
  IF TokAt(toks, i) = "?-" THEN ParseGoalNext(toks, ParsePredicate(toks, i + 1), cls)
  ELSE ParseQueryNext(toks, ParseClause(toks, i), cls)

ParseError == [tag |-> "Err", error |-> "parse error"]

\* the parser of the kind on the tokens; all of them must be used
ParseTokens(kind, toks, r) ==
  IF r.ok /\ r.next = Len(toks) + 1 THEN [tag |-> "Ok", value |-> r.ast] ELSE ParseError

ParseKind(kind, toks) ==
  ParseTokens(kind, toks,
              IF kind = "Value" THEN ParseValue(toks, 1)
              ELSE IF kind = "Predicate" THEN ParsePredicate(toks, 1)
              ELSE IF kind = "Clause" THEN ParseClause(toks, 1)
              ELSE ParseQuery(toks, 1, <<>>))

\* FromStr: XParser::new().parse(Lexer::new(src))
FromStrLexed(kind, lexed) == IF lexed.tag = "Err" THEN lexed ELSE ParseKind(kind, lexed.value)
FromStr(kind, text) == FromStrLexed(kind, LexFrom(text, 1, <<>>))

\* the characters of names and strings
Chars == {"a", "Z", "0", "_", "-", " ", "'", "\"", "\\"}

Names == SeqsOf(Chars, 0, MaxName)

LangValues == {HoleV} \cup {StrV(s) : s \in Names} \cup {VarV(s) : s \in Names}

\* names and values for the larger ASTs
FewNames == {<<>>, <<"a">>, <<"a", "-">>, <<"_">>, <<" ", "Z">>}
FewValues == {HoleV, StrV(<<"\"", "\\">>), StrV(<<"'">>), VarV(<<"Z", "0">>), VarV(<<"a", "_">>)}

LangPredicates ==
  {Pred(n, <<>>) : n \in Names}
    \cup {Pred(<<"a">>, <<v>>) : v \in LangValues}
    \cup {Pred(n, <<v, w>>) : n \in FewNames, v \in FewValues, w \in FewValues}

FewPredicates == {Pred(n, <<v>>) : n \in FewNames, v \in FewValues}

LangClauses ==
  {Clause(h, <<>>) : h \in FewPredicates}
    \cup {Clause(Pred(<<"a">>, <<v>>), <<Lit(neg, p.name, p.args)>>) :
            v \in FewValues, neg \in BOOLEAN, p \in FewPredicates}
    \cup {Clause(Pred(<<"a">>, <<>>), <<Lit(neg, n, <<>>), Lit(~neg, m, <<>>)>>) :
            neg \in BOOLEAN, n \in FewNames, m \in FewNames}

LangQueries ==
  {Query(<<>>, g) : g \in FewPredicates}
    \cup {Query(<<Clause(Pred(n, <<>>), <<>>),
                  Clause(Pred(<<"a">>, <<>>), <<Lit(TRUE, m, <<>>)>>)>>, Pred(n, <<>>)) :
            n \in FewNames, m \in FewNames}

LangInputs ==
  {[kind |-> "Value", ast |-> v] : v \in LangValues}
    \cup {[kind |-> "Predicate", ast |-> p] : p \in LangPredicates}
    \cup {[kind |-> "Clause", ast |-> c] : c \in LangClauses}
    \cup {[kind |-> "Query", ast |-> q] : q \in LangQueries}

\* let s = v.to_string();
ToStringStep ==
  /\ lang_pc = "ast"
  /\ printed' = Display(source.kind, source.ast)
  /\ lang_pc' = "printed"
  /\ UNCHANGED <<lowerVars, runVars, solveVars, storeVars, source, parsed, tokens>>

\* s.parse()
FromStrStep ==
  /\ lang_pc = "printed"
  /\ parsed' = FromStr(source.kind, printed)
  /\ tokens' = LexPoints(printed, 1, LexerNew, <<>>)
  /\ lang_pc' = "parsed"
  /\ UNCHANGED <<lowerVars, runVars, solveVars, storeVars, source, printed>>

InitLang ==
  /\ LowerIdle
  /\ RunIdle
  /\ SolveIdle
  /\ StoreIdle
  /\ source \in LangInputs
  /\ printed = <<>>
  /\ parsed = None
  /\ tokens = <<>>
  /\ lang_pc = "ast"

NextLang == ToStringStep \/ FromStrStep

SpecLang == InitLang /\ [][NextLang]_allVars

\* C20: printing then parsing is the identity: parsing the Display output
\* of a Value, Predicate, Clause or Query succeeds and gives the AST that
\* was printed.
C20_RoundTrip ==
  lang_pc = "parsed" => parsed = [tag |-> "Ok", value |-> source.ast]

\* the number of newline characters among the first n characters
RECURSIVE NewlinesBefore(_, _)
NewlinesBefore(text, n) ==
  IF n = 0 THEN 0
  ELSE NewlinesBefore(text, n - 1) + (IF text[n] = "\n" THEN 1 ELSE 0)

\* the offset of the first character of the line that holds offset n
RECURSIVE LineStart(_, _)
LineStart(text, n) ==
  IF n = 0 THEN 0 ELSE IF text[n] = "\n" THEN n ELSE LineStart(text, n - 1)

\* C21: the start point of every token has line 1 + the number of newlines
\* before the token and a column counted from 0 at the first character of
\* its line, on the first line and on all later lines.
C21_PointLineColumn ==
  lang_pc = "parsed" =>
    \A k \in 1..Len(tokens) :
      tokens[k].start = <<1 + NewlinesBefore(printed, tokens[k].offset),
                          tokens[k].offset - LineStart(printed, tokens[k].offset)>>

\* the Arcs of the string arguments among args
StrArcs(args) == {args[i].s : i \in {j \in 1..Len(args) : args[j].k = "Str"}}

\* the Arcs of the string arguments of the literals of a body
BodyArcs(body) == UNION {StrArcs(body[i].args) : i \in 1..Len(body)}

\* the Arcs held by the visitors and by the clauses pushed so far
HeldArcs ==
  StrArcs(cv.args) \cup BodyArcs(cv.body) \cup StrArcs(pv.args)
    \cup UNION {StrArcs(clauses[i].head.args) \cup BodyArcs(clauses[i].body) :
                  i \in 1..Len(clauses)}

\* C22: within one query any two string arguments with equal contents hold
\* the same interned handle, and arguments with different contents hold
\* different handles.
C22_StringsInterned ==
  \A a, b \in HeldArcs : (a.str = b.str) <=> (a.ptr = b.ptr)

\* the goal holds a string that a clause pushed earlier holds too, and
\* another string is held as well
C22_Witness ==
  /\ pc = "goal"
  /\ \E i \in 1..Len(clauses) :
       StrArcs(cv.args) \cap (StrArcs(clauses[i].head.args) \cup BodyArcs(clauses[i].body)) # {}
  /\ Cardinality(HeldArcs) >= 2

\* the tuple the clause derives when clause_satisfiable does not quit early
VarTuple(clause) == [v \in 1..clause.vars |-> [k |-> "Var", n |-> v - 1]]

\* the clauses with a body of the predicate with name i
RulesOf(q, i) == {c \in Range(ClausesOf(q, i)) : c.body # <<>>}

\* the clause has a negated literal whose predicate is not frozen
NegatesUnfrozen(sts, c) ==
  \E b \in 1..Len(c.body) : c.body[b].neg /\ ~sts[c.body[b].pred.name + 1].frozen

\* C23: no tuple is added to a predicate from a clause while a predicate
\* that the clause negates is not frozen: every tuple a predicate holds is
\* one of its facts or comes from a clause all of whose negated predicates
\* are frozen.
C23_NegationWaitsForFrozen ==
  \A i \in 5..(Len(states) - 1) :
    \A t \in states[i + 1].old \cup states[i + 1].new :
      \/ t \in FactsOf(solve_query, i)
      \/ \E c \in RulesOf(solve_query, i) : ~NegatesUnfrozen(states, c) /\ t = VarTuple(c)

\* a tuple of edge has been pushed and propagated while the clause of rel,
\* which negates edge, is skipped
C23_Witness ==
  /\ solve_pc = "stream"
  /\ SolvingRel
  /\ states[3].old # {}
  /\ \A c \in RulesOf(solve_query, 5) : NegatesUnfrozen(states, c)
  /\ states[6].old \cup states[6].new = {}

\* C24: every predicate, built-in and user-defined, becomes frozen: when
\* the streams have ended and the last propagate is done, every predicate
\* of the model is frozen.
C24_AllFrozenAtEnd ==
  StreamsEnded => \A i \in 1..Len(states) : states[i].frozen

\* the sweep of a propagate call on sts reaches the clauses of predicate i
SweepReaches(sts, i) == \E j \in 1..Len(sts) : j - 1 <= i /\ sts[j].new # {}

\* C25: in the step that freezes the built-in predicates and propagates
\* for the last time, every clause that was skipped until then because it
\* negates a predicate that was not frozen is evaluated: the sweep of the
\* last propagate reaches it.
C25_FinalPropagateEvaluates ==
  [][(solve_pc = "stream" /\ solve_pc' = "ended" /\ result' = Panic("not implemented")) =>
       \A i \in 5..(Len(states) - 1) :
         \A c \in RulesOf(solve_query, i) :
           (NegatesUnfrozen(states, c) /\ ~NegatesUnfrozen(Freeze(states), c)) =>
             SweepReaches(Freeze(states), i)]_allVars

\* the variables a body literal binds when a positive =/2 binds both of its
\* variable arguments and a negated literal binds none
EqBinds(lit) == IF lit.negated THEN {} ELSE PredVars(lit.pred)

\* C26: in the positivity check a positive =/2 between two variables binds
\* both, a positive =/2 between a variable and a string binds the variable,
\* a negated =/2 binds none: validate reports NeverUsedPositively for a
\* clause only when some variable index is bound by none of its literals.
C26_EqualityBinds ==
  Validated =>
    \A i \in 1..Len(built.clauses) :
      LET c == built.clauses[i]
      IN ClauseValidate(c).tag = "NeverUsedPositively" =>
           (0..(c.vars - 1)) \ UNION {EqBinds(c.body[b]) : b \in 1..Len(c.body)} # {}

\* the lowered argument stands for a hole of the surface clause
FromHole(v) == v.k = "Var" /\ v.span.t = "hole"
HeadHole(c) == \E a \in 1..Len(c.head.args) : FromHole(c.head.args[a])
\* the variable indices the holes of the body were given
BodyHoles(c) ==
  UNION {{c.body[b].pred.args[a].n :
            a \in {x \in 1..Len(c.body[b].pred.args) : FromHole(c.body[b].pred.args[x])}} :
         b \in 1..Len(c.body)}

\* C27: a hole makes validation reject a clause exactly when it is in the
\* clause head: a clause with a hole in its head is rejected whatever its
\* body, and a clause is never rejected for the variable of a hole in a body
\* literal, positive or negated.
C27_HoleRejectedOnlyInHead ==
  Validated =>
    \A i \in 1..Len(built.clauses) :
      LET c == built.clauses[i]
          r == ClauseValidate(c)
      IN /\ HeadHole(c) => r # Ok /\ validated # Ok
         /\ r.tag = "NeverUsedPositively" => r.var \notin BodyHoles(c)

\* the functor is a builtin or heads a clause of the surface query
Defined(f) ==
  \/ f \in DOMAIN BuiltinNames
  \/ \E i \in 1..Len(query.clauses) : FunctorOf(query.clauses[i].head) = f
\* every body literal and the goal refer to a defined functor
AllDefined ==
  /\ Defined(FunctorOf(query.goal))
  /\ \A i \in 1..Len(query.clauses) :
       \A b \in 1..Len(query.clauses[i].body) : Defined(FunctorOf(query.clauses[i].body[b]))

\* C28: when every body literal and the goal of the query refer to a builtin
\* or to a functor that heads a clause, GoalVisitor::finish does not fail
\* with NoSuchClause, also for a functor defined by facts only.
C28_DefinedFunctorsFound ==
  (pc = "built" /\ AllDefined) => built.tag # "NoSuchClause"

\* C29: Model::propagate only moves tuples forward and never loses one: on
\* return from every call new is empty for every predicate, and every tuple
\* that was in old or new when the call started is in old.  The calls are
\* those of the fact filling (the facts were put in new), of every tuple a
\* stream delivers (the tuple was put in new) and of the end of the streams.
C29_PropagateKeepsTuples ==
  [][/\ (solve_pc = "begin" /\ solve_pc' = "stream") =>
          \A j \in 1..Len(states') :
            states'[j].new = {} /\ FactsOf(solve_query, j - 1) \subseteq states'[j].old
     /\ solve_pc = "stream" =>
          /\ \A j \in 1..Len(states') :
               /\ states'[j].new = {}
               /\ states[j].old \cup states[j].new \subseteq states'[j].old
          /\ \A i \in 1..Len(streams) :
               (streams'[i].pos > streams[i].pos /\ streams[i].items[streams'[i].pos].tag = "Ok") =>
                 streams[i].items[streams'[i].pos].args
                   \in states'[streams[i].items[streams'[i].pos].name + 1].old]_allVars

\* an edge was delivered and propagated into a tuple of path: both are in
\* old and nothing is left in new
C29_Witness ==
  /\ solve_pc = "stream"
  /\ SolvingPath
  /\ streams[3].pos > 0
  /\ states[3].old # {}
  /\ states[6].old # {}
  /\ \A j \in 1..Len(states) : states[j].new = {}

(***************************************************************************)
(* Progress of the connection.  The worker thread runs its loop without    *)
(* waiting for anything but the channel, a caller's future is polled       *)
(* whenever it can make a step, and the tokio Mutex hands the lock to its  *)
(* waiters in turn, so a caller that keeps asking for the lock gets it.    *)
(* Nothing obliges a caller to start an operation.                         *)
(***************************************************************************)
StoreFairness ==
  /\ WF_allVars(WorkerRecv)
  /\ WF_allVars(WorkerRun)
  /\ WF_allVars(WorkerRead)
  /\ WF_allVars(WorkerSolve)
  /\ \A c \in Callers :
       /\ SF_allVars(Lock(c))
       /\ WF_allVars(Send(c))
       /\ WF_allVars(Reply(c))

SpecStoreFair == SpecStore /\ StoreFairness

\* every operation started on the connection returns
EveryCallReturns ==
  \A c \in Callers : (callers[c].pc # "idle") ~> (callers[c].pc = "idle")

\* C30: every operation on the connection eventually returns, and each
\* command that was sent to the worker receives a reply on its own oneshot
\* channel: a caller that waits for the reply of a command it sent gets back
\* what Command::run replied, never the SQLitePanic of a dropped sender.
C30_EveryCommandReplied ==
  \A c \in Callers :
    (callers[c].pc = "recv") ~>
      (callers[c].pc = "idle" /\ callers[c].reply # ReplyErr("SQLitePanic"))

====
